---- MODULE Spec2Model ----
(***************************************************************************)
(* A model of the FitMood client: the authentication context               *)
(* (src/src/contexts/AuthContext.jsx), the authentication and migration    *)
(* services (src/src/utils/auth.js), the offline store                     *)
(* (src/src/utils/habits.js) and the gateway apiCall                       *)
(* (src/src/utils/customEmojis.js).                                        *)
(*                                                                         *)
(* JavaScript values: null is the record Null; a localStorage string is    *)
(* either Text(s) (a string that is not a JSON object) or Json(u) (the     *)
(* result of JSON.stringify on the user object u).  A localStorage key is  *)
(* the triple <<prefix, base, suffix>> whose concatenation is the key.     *)
(***************************************************************************)
EXTENDS Integers, Sequences, FiniteSets, Bags, TLC

VARIABLES
  ls,         \* localStorage: key -> value or Null
  state,      \* the useReducer state of AuthProvider
  booted,     \* FALSE until initializeAuth has run after a (re)load
  ops,        \* login/register/setupPassword calls suspended at an await
  online,     \* navigator.onLine
  now,        \* Date.now()
  moods,      \* IndexedDB store 'moods' (keyPath id)
  syncQueue,  \* IndexedDB store 'syncQueue' in key order
  nextId,     \* key generator of 'syncQueue' (autoIncrement)
  drains,     \* bag of the running syncOfflineData invocations
  calls,      \* bag of the apiCall invocations of the UI suspended at fetch
  remote,     \* bag of the mood rows the backend has appended
  apiCalls,   \* the invocations of apiCall so far, by the UI and by drains
  hist,       \* history: facts about past steps the claims refer to
  ev          \* history: the operation the last step ran, and its result

vars == <<ls, state, booted, ops, online, now, moods, syncQueue, nextId,
          drains, calls, remote, apiCalls, hist, ev>>

authVars == <<ls, state, booted, ops>>
syncVars == <<now, moods, syncQueue, nextId, drains, calls, remote, apiCalls>>

-----------------------------------------------------------------------------
(* Bounds *)

MaxOps == 1
MaxTime == 2
MaxApiCalls == 7
MaxPad == 14
MaxTail == 3

-----------------------------------------------------------------------------
(* JavaScript values *)

Null == [null |-> TRUE]
Text(s) == [text |-> s]
Json(u) == [json |-> u]
\* new Date(t).toISOString()
toISOString(t) == [date |-> t]

\* if (value): null and the empty string are falsy
Truthy(v) == v # Null /\ v # Text("")

IsText(v) == "text" \in DOMAIN v
IsJson(v) == "json" \in DOMAIN v

\* JSON.stringify / JSON.parse of a user object; parse throws on other text
JSONstringify(u) == Json(u)
JSONparse(v) == IF IsJson(v) THEN [threw |-> FALSE, value |-> v.json]
                ELSE [threw |-> TRUE]

UserIds == {"u1", "u2"}

\* the email of the Users sheet row of a user id
emailOf(id) == IF id = "u1" THEN "foo@bar.com" ELSE "other@bar.com"

\* a user object with the phone of the Users sheet row of its id; a missing
\* string field is "", a missing hasPassword FALSE
UserObj(id, nm, em, hp) ==
  [userId |-> id, name |-> nm, email |-> em,
   phone |-> IF id = "u1" THEN "+14155551234" ELSE "+14155550000",
   hasPassword |-> hp]

\* the record the backend holds for a user id
BackendUser(id) == UserObj(id, "name", emailOf(id), FALSE)

-----------------------------------------------------------------------------
(* localStorage keys *)

oldPrefix == "moodly_"
newPrefix == "fitmood_"

Bases == {<<"user", "">>, <<"dark_mode", "">>, <<"habits", "">>,
          <<"custom_emojis", "">>, <<"migration_status", "">>,
          <<"migration_date", "">>}
         \cup {<<"password_setup_", u>> : u \in UserIds}

Keys == {<<p, b[1], b[2]>> : p \in {oldPrefix, newPrefix}, b \in Bases}

migrationKey == <<newPrefix, "migration_status", "">>
migrationDateKey == <<newPrefix, "migration_date", "">>

getStorageKey(base) == <<newPrefix, base, "">>

\* key.startsWith(prefix)
startsWith(key, prefix) == key[1] = prefix

\* a variant that leaves the key as it is
replacePrefix_none(key) == key

\* oldKey.replace(oldPrefix, newPrefix): the first occurrence, which is the
\* prefix for a key that starts with it
replacePrefix(key) ==
  IF key[1] = oldPrefix THEN <<newPrefix, key[2], key[3]>> ELSE key

setItem(l, key, value) == [l EXCEPT ![key] = value]
removeItem(l, key) == [l EXCEPT ![key] = Null]

-----------------------------------------------------------------------------
(* MigrationService, src/src/utils/auth.js *)

isMigrationComplete(l) == l[migrationKey] = Text("completed")

\* the keys collected by the first loop of migrateStorageKeys/cleanupOldKeys
oldKeysOf(l) == {k \in DOMAIN l : l[k] # Null /\ startsWith(k, oldPrefix)}

\* a variant that copies without looking at the new key
migrateKey_overwrite(l, oldKey) ==
  IF l[oldKey] # Null
  THEN [ls |-> setItem(l, replacePrefix(oldKey), l[oldKey]), migrated |-> TRUE]
  ELSE [ls |-> l, migrated |-> FALSE]

\* one iteration of the second loop of migrateStorageKeys
migrateKey(l, oldKey) ==
  LET value == l[oldKey]
      newKey == replacePrefix(oldKey)
  IN IF value # Null
     THEN IF l[newKey] # Null
          THEN [ls |-> l, migrated |-> FALSE]
          ELSE [ls |-> setItem(l, newKey, value), migrated |-> TRUE]
     ELSE [ls |-> l, migrated |-> FALSE]

\* the second loop of migrateStorageKeys.  tooLarge: the old keys whose value
\* does not fit into the free quota; setItem throws for them and the catch
\* of the iteration collects the failure
RECURSIVE migrateEach(_, _, _, _, _)
migrateEach(l, keys, tooLarge, done, errors) ==
  IF keys = {} THEN [ls |-> l, migratedKeys |-> done, errors |-> errors]
  ELSE LET oldKey == CHOOSE k \in keys : TRUE
           r == migrateKey(l, oldKey)
           threw == r.migrated /\ oldKey \in tooLarge
       IN migrateEach(IF threw THEN l ELSE r.ls, keys \ {oldKey}, tooLarge,
                      IF r.migrated /\ ~threw THEN done \cup {oldKey} ELSE done,
                      IF threw THEN errors \cup {oldKey} ELSE errors)

\* a variant that leaves the marker unset when a copy has failed
migrateStorageKeysOnQuota_strict(l, t, tooLarge, full) ==
  IF isMigrationComplete(l)
  THEN [ls |-> l, success |-> TRUE, migratedKeys |-> {}, errors |-> {},
        message |-> "Migration already completed"]
  ELSE LET r == migrateEach(l, oldKeysOf(l), tooLarge, {}, {})
           l1 == setItem(r.ls, migrationKey, Text("completed"))
           l2 == setItem(l1, migrationDateKey, toISOString(t))
       IN IF full \/ r.errors # {}
          THEN [ls |-> r.ls, success |-> FALSE, migratedKeys |-> {},
                errors |-> r.errors, message |-> "Migration failed"]
          ELSE [ls |-> l2, success |-> TRUE, migratedKeys |-> r.migratedKeys,
                errors |-> r.errors, message |-> "Successfully migrated"]

\* migrateStorageKeys on a storage with a quota.  full: nothing fits, every
\* setItem throws: each copy fails, the write of the marker throws into the
\* outer catch and the result is the failure
migrateStorageKeysOnQuota(l, t, tooLarge, full) ==
  IF isMigrationComplete(l)
  THEN [ls |-> l, success |-> TRUE, migratedKeys |-> {}, errors |-> {},
        message |-> "Migration already completed"]
  ELSE LET r == migrateEach(l, oldKeysOf(l),
                            IF full THEN oldKeysOf(l) ELSE tooLarge, {}, {})
           l1 == setItem(r.ls, migrationKey, Text("completed"))
           l2 == setItem(l1, migrationDateKey, toISOString(t))
       IN IF full
          THEN [ls |-> r.ls, success |-> FALSE, migratedKeys |-> {},
                errors |-> {migrationKey}, message |-> "Migration failed"]
          ELSE [ls |-> l2, success |-> TRUE, migratedKeys |-> r.migratedKeys,
                errors |-> r.errors, message |-> "Successfully migrated"]

\* migrateStorageKeys when everything fits
migrateStorageKeys(l, t) ==
  IF isMigrationComplete(l)
  THEN [ls |-> l, success |-> TRUE, migratedKeys |-> {},
        message |-> "Migration already completed"]
  ELSE LET r == migrateEach(l, oldKeysOf(l), {}, {}, {})
           l1 == setItem(r.ls, migrationKey, Text("completed"))
           l2 == setItem(l1, migrationDateKey, toISOString(t))
       IN [ls |-> l2, success |-> TRUE, migratedKeys |-> r.migratedKeys,
           message |-> "Successfully migrated"]

\* a variant that deletes the old keys whatever the marker
cleanupOldKeys_open(l) ==
  [ls |-> [k \in DOMAIN l |-> IF k \in oldKeysOf(l) THEN Null ELSE l[k]],
   success |-> TRUE, cleanedKeys |-> oldKeysOf(l)]

cleanupOldKeys(l) ==
  IF ~isMigrationComplete(l)
  THEN [ls |-> l, success |-> FALSE, cleanedKeys |-> {}]
  ELSE [ls |-> [k \in DOMAIN l |-> IF k \in oldKeysOf(l) THEN Null ELSE l[k]],
        success |-> TRUE, cleanedKeys |-> oldKeysOf(l)]

commonKeys == <<"user", "dark_mode", "habits", "custom_emojis">>

\* the loop returns true at the first key that qualifies
checkForMigratedUserData(l, userId) ==
  \E i \in 1..Len(commonKeys) :
    LET key == commonKeys[i]
        value == l[<<newPrefix, key, "">>]
    IN /\ Truthy(value)
       /\ IF key = "user"
          THEN LET p == JSONparse(value)
               IN ~p.threw /\ p.value.userId = userId
          ELSE TRUE

passwordSetupKey(userId) == <<newPrefix, "password_setup_", userId>>

\* a variant that marks the setup as completed once it has prompted
promptPasswordSetup_once(l, userId) ==
  LET setupStatus == l[passwordSetupKey(userId)]
      userData == l[<<newPrefix, "user", "">>]
      p == JSONparse(userData)
  IN IF setupStatus = Text("completed") THEN [ret |-> FALSE, ls |-> l]
     ELSE IF Truthy(userData) /\ p.threw THEN [ret |-> FALSE, ls |-> l]
     ELSE IF Truthy(userData) /\ p.value.userId = userId /\ p.value.hasPassword
     THEN [ret |-> FALSE,
           ls |-> setItem(l, passwordSetupKey(userId), Text("completed"))]
     ELSE IF isMigrationComplete(l) /\ checkForMigratedUserData(l, userId)
     THEN [ret |-> TRUE,
           ls |-> setItem(l, passwordSetupKey(userId), Text("completed"))]
     ELSE [ret |-> FALSE, ls |-> l]

promptPasswordSetup(l, userId) ==
  LET setupStatus == l[passwordSetupKey(userId)]
      userData == l[<<newPrefix, "user", "">>]
      p == JSONparse(userData)
  IN IF setupStatus = Text("completed") THEN [ret |-> FALSE, ls |-> l]
     ELSE IF Truthy(userData) /\ p.threw THEN [ret |-> FALSE, ls |-> l]
     ELSE IF Truthy(userData) /\ p.value.userId = userId /\ p.value.hasPassword
     THEN [ret |-> FALSE,
           ls |-> setItem(l, passwordSetupKey(userId), Text("completed"))]
     ELSE IF isMigrationComplete(l) /\ checkForMigratedUserData(l, userId)
     THEN [ret |-> TRUE, ls |-> l]
     ELSE [ret |-> FALSE, ls |-> l]

\* a variant that does not persist the marker
markPasswordSetupComplete_lost(l, userId) == l

markPasswordSetupComplete(l, userId) ==
  setItem(l, passwordSetupKey(userId), Text("completed"))

getStorageItem(l, base) ==
  LET newKey == <<newPrefix, base, "">>
      oldKey == <<oldPrefix, base, "">>
  IN IF l[newKey] = Null /\ ~isMigrationComplete(l)
     THEN IF l[oldKey] # Null
          THEN [value |-> l[oldKey], ls |-> setItem(l, newKey, l[oldKey])]
          ELSE [value |-> l[oldKey], ls |-> l]
     ELSE [value |-> l[newKey], ls |-> l]

setStorageItem(l, base, value) == setItem(l, <<newPrefix, base, "">>, value)

-----------------------------------------------------------------------------
(* Credential validation, src/src/utils/auth.js *)

minLength == 8

\* a password is the sequence of its characters
Str3(a, b, c) == <<a, b, c>>

lowercase ==
  <<"a", "b", "c", "d", "e", "f", "g", "h", "i", "j", "k", "l", "m",
    "n", "o", "p", "q", "r", "s", "t", "u", "v", "w", "x", "y", "z">>
uppercase ==
  <<"A", "B", "C", "D", "E", "F", "G", "H", "I", "J", "K", "L", "M",
    "N", "O", "P", "Q", "R", "S", "T", "U", "V", "W", "X", "Y", "Z">>

Range(f) == {f[i] : i \in DOMAIN f}

\* the character classes [a-z], [A-Z], \d and
\* [!@#$%^&*()_+\-=\[\]{};':"\\|,.<>\/?]
Lower == Range(lowercase)
Upper == Range(uppercase)
Digit == {"0", "1", "2", "3", "4", "5", "6", "7", "8", "9"}
Special ==
  {"!", "@", "#", "$", "%", "^", "&", "*", "(", ")", "_", "+", "-", "=",
   "[", "]", "{", "}", ";", "'", ":", "\"", "\\", "|", ",", ".", "<", ">",
   "/", "?"}

\* /[...]/.test(password) for a character class
test(class, password) == \E i \in 1..Len(password) : password[i] \in class

\* the character as the flag i of a regular expression compares it
toLowerCase(c) ==
  IF c \in Upper
  THEN lowercase[CHOOSE i \in 1..Len(uppercase) : uppercase[i] = c]
  ELSE c

\* /(.)\1{2,}/.test(password)
repeated(password) ==
  \E i \in 1..(Len(password) - 2) :
    password[i] = password[i + 1] /\ password[i + 1] = password[i + 2]

\* /123|abc|qwe/i.test(password)
sequential(password) ==
  \E i \in 1..(Len(password) - 2) :
    Str3(toLowerCase(password[i]), toLowerCase(password[i + 1]),
         toLowerCase(password[i + 2]))
      \in {Str3("1", "2", "3"), Str3("a", "b", "c"), Str3("q", "w", "e")}

Min(a, b) == IF a < b THEN a ELSE b
Max(a, b) == IF a > b THEN a ELSE b

calculatePasswordStrength(password) ==
  IF Len(password) = 0 THEN 0
  ELSE LET score ==
             Min(Len(password) * 4, 25)
             + (IF test(Lower, password) THEN 5 ELSE 0)
             + (IF test(Upper, password) THEN 5 ELSE 0)
             + (IF test(Digit, password) THEN 5 ELSE 0)
             + (IF test(Special, password) THEN 10 ELSE 0)
             + (IF Len(password) >= 8 THEN 10 ELSE 0)
             + (IF Len(password) >= 12 THEN 15 ELSE 0)
             + (IF Len(password) >= 16 THEN 20 ELSE 0)
             - (IF repeated(password) THEN 10 ELSE 0)
             - (IF sequential(password) THEN 10 ELSE 0)
       IN Max(0, Min(100, score))

\* the passwords given to register, setupPassword and resetPassword
Passwords == {<<"a", "b", "c">>,
              <<"p", "a", "s", "s", "w", "o", "r", "d">>,
              <<"A", "b", "1", "!", "2", "3", "4", "5">>}

\* a variant that accepts a password of seven characters
validatePassword_seven(password) ==
  LET errors ==
        (IF Len(password) < minLength - 1
         THEN <<"Password must be at least 8 characters long">> ELSE <<>>)
        \o
        (IF ~test(Special, password)
         THEN <<"Password must contain at least one special character">>
         ELSE <<>>)
  IN [isValid |-> Len(errors) = 0, errors |-> errors,
      strength |-> calculatePasswordStrength(password)]

validatePassword(password) ==
  LET errors ==
        (IF Len(password) < minLength
         THEN <<"Password must be at least 8 characters long">> ELSE <<>>)
        \o
        (IF ~test(Special, password)
         THEN <<"Password must contain at least one special character">>
         ELSE <<>>)
  IN [isValid |-> Len(errors) = 0, errors |-> errors,
      strength |-> calculatePasswordStrength(password)]

\* errors.join('. ')
joinErrors(errors) ==
  CASE Len(errors) = 0 -> ""
    [] Len(errors) = 1 -> errors[1]
    [] OTHER -> "Password must be at least 8 characters long. Password must contain at least one special character"

Identifiers == {"foo@bar.com", "+14155551234", "not-an-identifier"}

\* a variant that takes whatever is not a phone number for an email address
getIdentifierType_lax(identifier) ==
  IF identifier = "+14155551234" THEN "phone" ELSE "email"

getIdentifierType(identifier) ==
  CASE identifier = "foo@bar.com" -> "email"
    [] identifier = "+14155551234" -> "phone"
    [] OTHER -> "unknown"

\* generateSalt: 16 random bytes in base64
Salts == {"salt1", "salt3"}

\* hashPassword: base64 of the SHA-256 digest of password + salt, equal
\* results only for equal arguments
hashPassword(password, salt) == <<password, salt>>

\* userData.email.toLowerCase().trim() on the emails of the model
toLowerCaseTrim(email) ==
  CASE email = " Foo@Bar.com" -> "foo@bar.com"
    [] email = "Foo@Bar.com" -> "foo@bar.com"
    [] OTHER -> email

\* normalizePhoneNumber on the phones of the model: every character but
\* digits and + is dropped, ten digits without + get +1 in front
normalizePhoneNumber(phone) ==
  CASE phone = "(415) 555-1234" -> "+14155551234"
    [] phone = "415.555.1234" -> "+14155551234"
    [] phone = "+1 415 555 0000" -> "+14155550000"
    [] OTHER -> phone

\* the form of the registration page as a new visitor fills it in, and the
\* user data setupPassword takes from the user of the state
RegisterForm(password) ==
  [name |-> "name", email |-> " Foo@Bar.com", phone |-> "(415) 555-1234",
   password |-> password]

SetupForm(user, password) ==
  [name |-> user.name, email |-> user.email, phone |-> user.phone,
   password |-> password]

\* the payloads AuthenticationService passes to apiCall, which sends them
\* with the action as the body of the request (the token of a reset is left
\* out)
loginRequest(identifier, password) ==
  [action |-> "login", identifier |-> identifier,
   identifierType |-> getIdentifierType(identifier), password |-> password]

registerRequest(userData, salt) ==
  [action |-> "register", name |-> userData.name,
   email |-> toLowerCaseTrim(userData.email),
   phone |-> normalizePhoneNumber(userData.phone),
   passwordHash |-> hashPassword(userData.password, salt), salt |-> salt]

requestPasswordResetRequest(identifier) ==
  [action |-> "requestPasswordReset", identifier |-> identifier,
   identifierType |-> getIdentifierType(identifier)]

resetPasswordRequest(password, salt) ==
  [action |-> "resetPassword", passwordHash |-> hashPassword(password, salt),
   salt |-> salt]

-----------------------------------------------------------------------------
(* AuthProvider, src/src/contexts/AuthContext.jsx *)

NoError == "null"

initialState ==
  [user |-> Null, isAuthenticated |-> FALSE, loading |-> TRUE,
   error |-> NoError, needsPasswordSetup |-> FALSE]

\* a variant in which SET_ERROR also drops the user
authReducer_errorClears(s, type, payload) ==
  CASE type = "SET_LOADING" ->
         [s EXCEPT !.loading = payload, !.error = NoError]
    [] type = "SET_USER" ->
         [s EXCEPT !.user = payload, !.isAuthenticated = (payload # Null),
                   !.loading = FALSE, !.error = NoError,
                   !.needsPasswordSetup = FALSE]
    [] type = "SET_ERROR" ->
         [s EXCEPT !.user = Null, !.isAuthenticated = FALSE,
                   !.error = payload, !.loading = FALSE]
    [] type = "CLEAR_AUTH" ->
         [s EXCEPT !.user = Null, !.isAuthenticated = FALSE,
                   !.loading = FALSE, !.error = NoError,
                   !.needsPasswordSetup = FALSE]
    [] type = "SET_NEEDS_PASSWORD_SETUP" ->
         [s EXCEPT !.needsPasswordSetup = payload]
    [] OTHER -> s

\* a variant in which CLEAR_AUTH leaves needsPasswordSetup as it is
authReducer_promptStays(s, type, payload) ==
  CASE type = "SET_LOADING" ->
         [s EXCEPT !.loading = payload, !.error = NoError]
    [] type = "SET_USER" ->
         [s EXCEPT !.user = payload, !.isAuthenticated = (payload # Null),
                   !.loading = FALSE, !.error = NoError,
                   !.needsPasswordSetup = FALSE]
    [] type = "SET_ERROR" ->
         [s EXCEPT !.error = payload, !.loading = FALSE]
    [] type = "CLEAR_AUTH" ->
         [s EXCEPT !.user = Null, !.isAuthenticated = FALSE,
                   !.loading = FALSE, !.error = NoError]
    [] type = "SET_NEEDS_PASSWORD_SETUP" ->
         [s EXCEPT !.needsPasswordSetup = payload]
    [] OTHER -> s

authReducer(s, type, payload) ==
  CASE type = "SET_LOADING" ->
         [s EXCEPT !.loading = payload, !.error = NoError]
    [] type = "SET_USER" ->
         [s EXCEPT !.user = payload, !.isAuthenticated = (payload # Null),
                   !.loading = FALSE, !.error = NoError,
                   !.needsPasswordSetup = FALSE]
    [] type = "SET_ERROR" ->
         [s EXCEPT !.error = payload, !.loading = FALSE]
    [] type = "CLEAR_AUTH" ->
         [s EXCEPT !.user = Null, !.isAuthenticated = FALSE,
                   !.loading = FALSE, !.error = NoError,
                   !.needsPasswordSetup = FALSE]
    [] type = "SET_NEEDS_PASSWORD_SETUP" ->
         [s EXCEPT !.needsPasswordSetup = payload]
    [] OTHER -> s

\* a variant that leaves the persisted Session
clearAuth_keep(l, s) ==
  [ls |-> l, state |-> authReducer(s, "CLEAR_AUTH", Null)]

\* clearAuth: removes the persisted Session and dispatches CLEAR_AUTH
clearAuth(l, s) ==
  [ls |-> removeItem(l, getStorageKey("user")),
   state |-> authReducer(s, "CLEAR_AUTH", Null)]

\* a variant that does not run the migration
runMigrationIfNeeded_skip(l, t, full) == l

\* runMigrationIfNeeded.  full: the quota of localStorage is exhausted and
\* every setItem throws; then each copy of migrateStorageKeys fails and is
\* collected, the write of the marker throws, the result has success false
\* and runMigrationIfNeeded logs it
runMigrationIfNeeded(l, t, full) ==
  IF ~isMigrationComplete(l) /\ ~full THEN migrateStorageKeys(l, t).ls ELSE l

\* the user object login and register build from a successful result
sessionOf(result) ==
  UserObj(result.userId, result.name, result.email, FALSE)

Slots == 1..MaxOps
Idle == [pc |-> "idle"]

\* the results of apiCall for an authentication action, once fetch settles:
\* a success result, a result with an error field (apiCall throws it), a
\* rejected fetch or unparsable body (apiCall throws), a result with neither
Outcomes ==
  {[kind |-> "ok", user |-> BackendUser(u)] : u \in UserIds}
  \cup {[kind |-> "error", error |-> e] :
          e \in {"Invalid login credentials",
                 "User already exists with this email or phone"}}
  \cup {[kind |-> "transport", error |-> "Failed to fetch"]}
  \cup {[kind |-> "empty"]}

offlineMessage == "You are offline. Your data will sync when you reconnect."

\* apiCall invoked offline for an action other than addMood: it throws
Offline == [kind |-> "offline", error |-> offlineMessage]

\* the message of the error apiCall throws for an outcome, NoError when it
\* returns the result
Thrown(o) == IF o.kind \in {"ok", "empty"} THEN NoError ELSE o.error

\* a variant that passes the message of the error on, as register does
loginResult_verbatim(o) ==
  CASE o.kind = "ok" -> [success |-> TRUE, user |-> o.user]
    [] o.kind = "empty" -> [success |-> FALSE, error |-> "undefined"]
    [] OTHER -> [success |-> FALSE, error |-> o.error]

\* what AuthenticationService.login resolves to for an apiCall outcome
loginResult(o) ==
  CASE o.kind = "ok" -> [success |-> TRUE, user |-> o.user]
    [] o.kind = "empty" -> [success |-> FALSE, error |-> "undefined"]
    [] OTHER -> [success |-> FALSE, error |-> "Invalid login credentials"]

\* what AuthenticationService.register resolves to for an apiCall outcome
registerResult(o) ==
  CASE o.kind = "ok" -> [success |-> TRUE, user |-> o.user]
    [] o.kind = "empty" -> [success |-> FALSE, error |-> "undefined"]
    [] OTHER -> [success |-> FALSE, error |-> o.error]

\* what AuthenticationService.requestPasswordReset and resetPassword resolve
\* to for an apiCall outcome
resetResult(o) ==
  CASE o.kind = "ok" -> [success |-> TRUE]
    [] o.kind = "empty" -> [success |-> FALSE, error |-> "undefined"]
    [] OTHER -> [success |-> FALSE, error |-> o.error]

\* initializeAuth.  With the quota exhausted (full) the write of
\* getStorageItem throws into the catch of initializeAuth, and the write of
\* promptPasswordSetup into its own catch, after which it returns false
initializeAuth(l, s, t, full) ==
  LET s1 == authReducer(s, "SET_LOADING", TRUE)
      l1 == runMigrationIfNeeded(l, t, full)
      g == getStorageItem(l1, "user")
      savedUser == g.value
      p == JSONparse(savedUser)
  IN IF full /\ g.ls # l1
     THEN LET c == clearAuth(l1, authReducer(s1, "SET_ERROR",
                                             "QuotaExceededError"))
          IN [ls |-> c.ls, state |-> c.state, prompt |-> FALSE, userId |-> ""]
     ELSE IF ~Truthy(savedUser)
     THEN [ls |-> g.ls, state |-> authReducer(s1, "SET_LOADING", FALSE),
           prompt |-> FALSE, userId |-> ""]
     ELSE IF p.threw
     THEN LET c == clearAuth(g.ls, authReducer(s1, "SET_ERROR", "SyntaxError"))
          IN [ls |-> c.ls, state |-> c.state, prompt |-> FALSE, userId |-> ""]
     ELSE IF p.value.userId = "" \/ p.value.name = "" \/ p.value.email = ""
     THEN LET c == clearAuth(g.ls, s1)
          IN [ls |-> c.ls, state |-> c.state, prompt |-> FALSE, userId |-> ""]
     ELSE LET needsSetup == promptPasswordSetup(g.ls, p.value.userId)
              s2 == authReducer(s1, "SET_USER", p.value)
          IN [ls |-> IF full THEN g.ls ELSE needsSetup.ls,
              state |-> IF needsSetup.ret
                        THEN authReducer(s2, "SET_NEEDS_PASSWORD_SETUP", TRUE)
                        ELSE s2,
              prompt |-> needsSetup.ret, userId |-> p.value.userId]

InitializeAuth(full) ==
  /\ ~booted
  /\ LET r == initializeAuth(ls, state, now, full)
     IN /\ ls' = r.ls
        /\ state' = r.state
        /\ ev' = [op |-> "initializeAuth", prompt |-> r.prompt,
                  userId |-> r.userId, first |-> ~hist.bootedOnce]
  /\ booted' = TRUE
  /\ hist' = [hist EXCEPT !.bootedOnce = TRUE]
  /\ UNCHANGED <<ops, online>>
  /\ UNCHANGED syncVars

\* the page is loaded again: suspended calls are gone, the state is initial
Reload ==
  /\ booted
  /\ booted' = FALSE
  /\ state' = initialState
  /\ ops' = [i \in Slots |-> Idle]
  /\ ev' = [op |-> "reload"]
  /\ UNCHANGED <<ls, online, hist>>
  /\ UNCHANGED syncVars

\* requestPasswordReset and resetPassword of AuthProvider
ResetKinds == {"requestPasswordReset", "resetPassword"}

\* ev of a step of an authentication operation: its phase, and when the step
\* ends the operation the result it returns (success, error); called tells
\* whether the step has invoked apiCall, thrown is the message of the error
\* that apiCall has thrown in the step (NoError when it has not thrown),
\* message is the body fetch has sent in the step
NoMessage == [action |-> "none"]

Event(kind, phase, success, error, called, thrown) ==
  [op |-> kind, phase |-> phase, success |-> success, error |-> error,
   called |-> called, thrown |-> thrown, message |-> NoMessage]

\* ev of a step in which apiCall has sent message to the gateway
Sent(e, message) == [e EXCEPT !.message = message]

\* a failed operation: login, register and setupPassword dispatch SET_ERROR
\* and return the failure; requestPasswordReset and resetPassword dispatch
\* SET_LOADING false and return the result of the service

Fail(kind, s, error, called, thrown) ==
  /\ state' = IF kind \in ResetKinds
               THEN authReducer(s, "SET_LOADING", FALSE)
               ELSE authReducer(s, "SET_ERROR", error)
  /\ ev' = Event(kind, "done", FALSE, error, called, thrown)
  /\ UNCHANGED <<ls, hist>>

LoginStart(i, identifier) ==
  /\ booted
  /\ ops[i] = Idle
  /\ LET s1 == authReducer(state, "SET_LOADING", TRUE)
     IN IF getIdentifierType(identifier) = "unknown"
        THEN /\ Fail("login", s1,
                     "Please enter a valid email address or phone number",
                     FALSE, NoError)
             /\ UNCHANGED ops
        ELSE IF ~online
        THEN /\ Fail("login", s1, loginResult(Offline).error, TRUE,
                     Offline.error)
             /\ UNCHANGED ops
        ELSE /\ state' = s1
             /\ ops' = [ops EXCEPT ![i] =
                          [pc |-> "awaiting", kind |-> "login",
                           user |-> Null, stale |-> FALSE]]
             /\ \E password \in Passwords :
                  ev' = Sent(Event("login", "start", FALSE, NoError, TRUE,
                                   NoError),
                             loginRequest(identifier, password))
             /\ UNCHANGED <<ls, hist>>
  /\ UNCHANGED <<booted, online>>
  /\ UNCHANGED syncVars

\* register and setupPassword up to the await of hashPassword
RegisterStart(i, password) ==
  /\ booted
  /\ ops[i] = Idle
  /\ LET s1 == authReducer(state, "SET_LOADING", TRUE)
         v == validatePassword(password)
     IN IF ~v.isValid
        THEN /\ Fail("register", s1, joinErrors(v.errors), FALSE,
                     NoError)
             /\ UNCHANGED ops
        ELSE /\ state' = s1
             /\ ops' = [ops EXCEPT ![i] =
                          [pc |-> "hashing", kind |-> "register",
                           user |-> Null, stale |-> FALSE,
                           password |-> password]]
             /\ ev' = Event("register", "start", FALSE, NoError, FALSE,
                            NoError)
             /\ UNCHANGED <<ls, hist>>
  /\ UNCHANGED <<booted, online>>
  /\ UNCHANGED syncVars

\* the state in which PasswordSetupPrompt is shown
NeedsPasswordSetup(s) ==
  s.user # Null /\ s.isAuthenticated /\ s.needsPasswordSetup /\ ~s.loading

\* setupPassword up to the await of hashPassword; prompted tells whether
\* the call was made in NeedsPasswordSetup
SetupPasswordStart(i, password) ==
  /\ booted
  /\ ops[i] = Idle
  /\ LET s1 == authReducer(state, "SET_LOADING", TRUE)
         v == validatePassword(password)
     IN IF state.user = Null
        THEN /\ Fail("setupPassword", s1, "No user found for password setup",
                     FALSE, NoError)
             /\ UNCHANGED ops
        ELSE IF ~v.isValid
        THEN /\ Fail("setupPassword", s1, joinErrors(v.errors), FALSE,
                     NoError)
             /\ UNCHANGED ops
        ELSE /\ state' = s1
             /\ ops' = [ops EXCEPT ![i] =
                          [pc |-> "hashing", kind |-> "setupPassword",
                           user |-> state.user, stale |-> FALSE,
                           password |-> password,
                           prompted |-> NeedsPasswordSetup(state)]]
             /\ ev' = Event("setupPassword", "start", FALSE, NoError, FALSE,
                            NoError)
             /\ UNCHANGED <<ls, hist>>
  /\ UNCHANGED <<booted, online>>
  /\ UNCHANGED syncVars

\* requestPasswordReset up to the await of fetch
RequestPasswordResetStart(i, identifier) ==
  /\ booted
  /\ ops[i] = Idle
  /\ LET s1 == authReducer(state, "SET_LOADING", TRUE)
     IN IF getIdentifierType(identifier) = "unknown"
        THEN /\ Fail("requestPasswordReset", s1,
                     "Please enter a valid email address or phone number",
                     FALSE, NoError)
             /\ UNCHANGED ops
        ELSE IF ~online
        THEN /\ Fail("requestPasswordReset", s1, resetResult(Offline).error,
                     TRUE, Offline.error)
             /\ UNCHANGED ops
        ELSE /\ state' = s1
             /\ ops' = [ops EXCEPT ![i] =
                          [pc |-> "awaiting", kind |-> "requestPasswordReset",
                           user |-> Null, stale |-> FALSE]]
             /\ ev' = Sent(Event("requestPasswordReset", "start", FALSE,
                                 NoError, TRUE, NoError),
                           requestPasswordResetRequest(identifier))
             /\ UNCHANGED <<ls, hist>>
  /\ UNCHANGED <<booted, online>>
  /\ UNCHANGED syncVars

\* resetPassword up to the await of hashPassword
ResetPasswordStart(i, password) ==
  /\ booted
  /\ ops[i] = Idle
  /\ LET s1 == authReducer(state, "SET_LOADING", TRUE)
         v == validatePassword(password)
     IN IF ~v.isValid
        THEN /\ Fail("resetPassword", s1, joinErrors(v.errors), FALSE,
                     NoError)
             /\ UNCHANGED ops
        ELSE /\ state' = s1
             /\ ops' = [ops EXCEPT ![i] =
                          [pc |-> "hashing", kind |-> "resetPassword",
                           user |-> Null, stale |-> FALSE,
                           password |-> password]]
             /\ ev' = Event("resetPassword", "start", FALSE, NoError, FALSE,
                            NoError)
             /\ UNCHANGED <<ls, hist>>
  /\ UNCHANGED <<booted, online>>
  /\ UNCHANGED syncVars

\* hashPassword has resolved with the hash for the salt of generateSalt: the
\* service calls apiCall
HashDone(i) ==
  /\ ops[i].pc = "hashing"
  /\ IF ~online
     THEN /\ Fail(ops[i].kind, state, registerResult(Offline).error, TRUE,
               Offline.error)
          /\ ops' = [ops EXCEPT ![i] = Idle]
     ELSE /\ ops' = [ops EXCEPT ![i].pc = "awaiting"]
          /\ \E salt \in Salts :
               ev' = Sent(Event(ops[i].kind, "fetch", FALSE, NoError, TRUE,
                                NoError),
                          IF ops[i].kind = "resetPassword"
                          THEN resetPasswordRequest(ops[i].password, salt)
                          ELSE IF ops[i].kind = "setupPassword"
                          THEN registerRequest(
                                 SetupForm(ops[i].user, ops[i].password),
                                 salt)
                          ELSE registerRequest(RegisterForm(ops[i].password),
                                               salt))
          /\ UNCHANGED <<ls, state, hist>>
  /\ UNCHANGED <<booted, online>>
  /\ UNCHANGED syncVars

\* fetch has settled with outcome o: the rest of the operation
GatewayResponse(i, o) ==
  /\ ops[i].pc = "awaiting"
  /\ LET kind == ops[i].kind
         result == CASE kind = "login" -> loginResult(o)
                     [] kind \in ResetKinds -> resetResult(o)
                     [] OTHER -> registerResult(o)
     IN IF ~result.success
        THEN Fail(kind, state, result.error, FALSE, Thrown(o))
        ELSE IF kind \in ResetKinds
        THEN /\ state' = authReducer(state, "SET_LOADING", FALSE)
             /\ ev' = Event(kind, "done", TRUE, NoError, FALSE, NoError)
             /\ UNCHANGED <<ls, hist>>
        ELSE IF kind = "setupPassword"
        THEN LET l1 == markPasswordSetupComplete(ls, ops[i].user.userId)
                 updatedUser == [ops[i].user EXCEPT !.hasPassword = TRUE]
             IN /\ ls' = setStorageItem(l1, "user", JSONstringify(updatedUser))
                /\ state' = authReducer(state, "SET_USER", updatedUser)
                /\ hist' = [hist EXCEPT
                     !.setupDone = @ \cup {ops[i].user.userId},
                     !.loggedOut = IF ops[i].stale THEN @ ELSE FALSE]
                /\ ev' = Event(kind, "done", TRUE, NoError, FALSE, NoError)
        ELSE LET user == sessionOf(result.user)
             IN /\ ls' = setStorageItem(ls, "user", JSONstringify(user))
                /\ state' = authReducer(state, "SET_USER", user)
                /\ hist' = [hist EXCEPT
                     !.loggedOut = IF ops[i].stale THEN @ ELSE FALSE]
                /\ ev' = Event(kind, "done", TRUE, NoError, FALSE, NoError)
  /\ ops' = [ops EXCEPT ![i] = Idle]
  /\ UNCHANGED <<booted, online>>
  /\ UNCHANGED syncVars

Logout ==
  /\ booted
  /\ LET c == clearAuth(ls, state)
     IN /\ ls' = c.ls
        /\ state' = c.state
  /\ ops' = [i \in Slots |->
               IF ops[i] = Idle THEN Idle ELSE [ops[i] EXCEPT !.stale = TRUE]]
  /\ hist' = [hist EXCEPT !.loggedOut = TRUE]
  /\ ev' = [op |-> "logout", again |-> hist.loggedOut]
  /\ UNCHANGED <<booted, online>>
  /\ UNCHANGED syncVars

SkipPasswordSetup ==
  /\ booted
  /\ state' = authReducer(state, "SET_NEEDS_PASSWORD_SETUP", FALSE)
  /\ ev' = [op |-> "skipPasswordSetup"]
  /\ UNCHANGED <<ls, booted, ops, online, hist>>
  /\ UNCHANGED syncVars

ClearError ==
  /\ booted
  /\ state' = authReducer(state, "SET_ERROR", NoError)
  /\ ev' = [op |-> "clearError"]
  /\ UNCHANGED <<ls, booted, ops, online, hist>>
  /\ UNCHANGED syncVars

\* the browser's online/offline events
Connectivity ==
  /\ online' = ~online
  /\ ev' = [op |-> "connectivity"]
  /\ UNCHANGED <<ls, state, booted, ops, hist>>
  /\ UNCHANGED syncVars

-----------------------------------------------------------------------------
(* Offline store, src/src/utils/habits.js, and apiCall,                    *)
(* src/src/utils/customEmojis.js                                           *)

\* the mood entries the user submits, in this order
Payloads == {"A", "B", "C"}
Earlier(p) == IF p = "A" THEN {} ELSE IF p = "B" THEN {"A"} ELSE {"A", "B"}

QueueIds(q) == {q[j].id : j \in 1..Len(q)}
QueuePayloads(q) == {q[j].payload : j \in 1..Len(q)}

\* objectStore(syncQueue).delete(id)
deleteFromQueue(q, id) == SelectSeq(q, LAMBDA e : e.id # id)

\* one readwrite transaction on moods and syncQueue: moodStore.add with key
\* id = Date.now() fails when the key exists, and then nothing is written
saveMoodOffline(m, q, nid, moodData, t) ==
  IF \E r \in m : r.id = t
  THEN [ok |-> FALSE, moods |-> m, syncQueue |-> q, nextId |-> nid]
  ELSE [ok |-> TRUE,
        moods |-> m \cup {[id |-> t, payload |-> moodData, synced |-> FALSE]},
        syncQueue |-> Append(q, [id |-> nid, action |-> "addMood",
                                 payload |-> moodData]),
        nextId |-> nid + 1]

\* the outcomes of fetch and JSON.parse in apiCall: a result without error,
\* a result with an error field, a rejected fetch
FetchOutcomes == {"ok", "error", "transport"}

\* a variant that returns the result also when it has an error field
apiCallSettled_swallow(action, o, onl) ==
  IF o = "transport" /\ ~onl /\ action = "addMood" THEN "saveOffline"
  ELSE IF o = "transport" THEN "throw"
  ELSE "return"

\* what apiCall does once fetch has settled with o (lines 106-138)
apiCallSettled(action, o, onl) ==
  IF o = "ok" THEN "return"
  ELSE IF ~onl /\ action = "addMood" THEN "saveOffline"
  ELSE "throw"

One(x) == SetToBag({x})

\* the rows of the backend after it has answered o to action: an addMood
\* that it answered without error has appended its row
accepted(rows, action, payload, o) ==
  IF o = "ok" /\ action = "addMood" THEN rows (+) One(payload) ELSE rows

\* syncOfflineData up to the result of getAll: none when offline; the queue
\* as it is before any transaction created later
syncOfflineData(ds, q, onl) ==
  IF ~onl THEN ds
  ELSE IF Len(q) = 0
  THEN ds
  ELSE ds (+) One([pc |-> "loop", queue |-> q, i |-> 1])

\* apiCall starts syncOfflineData after these actions
StartsSync(action) == action = "addMood" \/ action = "getUserMoods"


\* a variant that removes the operation whatever the result of its replay
queueAfterReplay_always(q, item, res) == deleteFromQueue(q, item.id)

\* the body of the for loop of syncOfflineData after apiCall has settled:
\* the delete when it returned, nothing when it threw
queueAfterReplay(q, item, res) ==
  IF res = "failed" THEN q ELSE deleteFromQueue(q, item.id)

\* the call apiCall(item.action, item.payload) of a drain up to its first
\* suspension (habits.js line 289, apiCall lines 81-105): offline, the
\* transaction of saveMoodOffline; online, fetch
callItem(dr, m, q, nid, t, onl) ==
  IF onl
  THEN [drains |-> One([dr EXCEPT !.pc = "fetching"]),
        moods |-> m, syncQueue |-> q, nextId |-> nid, queued |-> {},
        called |-> 1]
  ELSE LET r == saveMoodOffline(m, q, nid, dr.queue[dr.i].payload, t)
       IN [drains |-> One([dr EXCEPT !.pc = IF r.ok THEN "saved"
                                             ELSE "rejected"]),
           moods |-> r.moods, syncQueue |-> r.syncQueue, nextId |-> r.nextId,
           queued |-> IF r.ok THEN {dr.queue[dr.i].payload} ELSE {},
           called |-> 1]

\* the for loop of syncOfflineData from the settling of the call for item i
\* (res) to the next suspension: the delete or the catch, then the call for
\* the next item, or resolve
loopBody(dr, res, m, q, nid, t, onl) ==
  LET q1 == queueAfterReplay(q, dr.queue[dr.i], res)
  IN IF dr.i = Len(dr.queue)
     THEN [drains |-> EmptyBag, moods |-> m, syncQueue |-> q1,
           nextId |-> nid, queued |-> {}, called |-> 0]
     ELSE callItem([pc |-> "loop", queue |-> dr.queue, i |-> dr.i + 1],
                   m, q1, nid, t, onl)

-----------------------------------------------------------------------------
(* The application: AuthProvider and the browser *)

EmptyStorage == [k \in Keys |-> Null]

\* what the earlier version of the application left under the old prefix
LegacyStores ==
  {[k \in Keys |->
      IF k = <<oldPrefix, "user", "">> THEN u
      ELSE IF k = <<oldPrefix, "dark_mode", "">> THEN d
      ELSE Null] :
     u \in {Null, Json(BackendUser("u1"))}, d \in {Null, Text("true")}}

HistInit(l) ==
  [init |-> l, loggedOut |-> FALSE, setupDone |-> {}, bootedOnce |-> FALSE,
   runs |-> 0, before |-> l, after |-> l,
   submitted |-> {}, onlyOffline |-> TRUE,
   enqueued |-> {}]

SyncIdle ==
  /\ now = 0
  /\ moods = {}
  /\ syncQueue = <<>>
  /\ nextId = 1
  /\ drains = EmptyBag
  /\ calls = EmptyBag
  /\ remote = EmptyBag
  /\ apiCalls = 0

Init ==
  /\ ls \in LegacyStores
  /\ state = initialState
  /\ booted = FALSE
  /\ ops = [i \in Slots |-> Idle]
  /\ online = TRUE
  /\ SyncIdle
  /\ hist = HistInit(ls)
  /\ ev = [op |-> "init"]

Next ==
  \/ InitializeAuth(FALSE)
  \/ Reload
  \/ \E i \in Slots, identifier \in Identifiers : LoginStart(i, identifier)
  \/ \E i \in Slots, password \in Passwords : RegisterStart(i, password)
  \/ \E i \in Slots, password \in Passwords : SetupPasswordStart(i, password)
  \/ \E i \in Slots : HashDone(i)
  \/ \E i \in Slots, o \in Outcomes : GatewayResponse(i, o)
  \/ Logout
  \/ SkipPasswordSetup
  \/ ClearError
  \/ Connectivity

Spec == Init /\ [][Next]_vars

-----------------------------------------------------------------------------
(* The backend, src/unnamed/part_002 *)

\* base64 of the SHA-256 digest of password + salt: equal results only for
\* equal arguments
hashPasswordServerSide(password, salt) == <<password, salt>>

\* a row of the Users sheet (columns ID, Email, Phone, PasswordHash, Salt);
\* a legacy user has an empty PasswordHash and Salt
UserRow(id, email, phone, hash, salt) ==
  [userId |-> id, email |-> email, phone |-> phone, passwordHash |-> hash,
   salt |-> salt]

otherUser ==
  UserRow("u2", "other@bar.com", "+14155550000",
          hashPasswordServerSide("pass;word", "salt2"), "salt2")

\* the rows of the Users sheet below its header: without the account of
\* foo@bar.com, with it, and with it as a legacy account
UserSheets ==
  {<<>>,
   <<otherUser>>,
   <<otherUser,
     UserRow("u1", "foo@bar.com", "+14155551234",
             hashPasswordServerSide("secret!1", "salt1"), "salt1")>>,
   <<otherUser, UserRow("u1", "foo@bar.com", "+14155551234", "", "")>>}

\* the requests AuthenticationService.login sends
LoginRequests ==
  {[identifier |-> id, identifierType |-> getIdentifierType(id),
    password |-> pw] :
     id \in {"foo@bar.com", "+14155551234"}, pw \in {"secret!1", "guess"}}

\* the result of a handler: error is "" in a result without error field
Result(success, error, userId) ==
  [success |-> success, error |-> error, userId |-> userId]

handleLogin(values, data) ==
  IF data.identifier = "" \/ data.password = ""
  THEN Result(FALSE, "Missing credentials", "")
  ELSE LET found == {i \in 1..Len(values) :
                       \/ /\ data.identifierType = "email"
                          /\ values[i].email = data.identifier
                       \/ /\ data.identifierType = "phone"
                          /\ values[i].phone = data.identifier}
       IN IF found = {}
          THEN Result(FALSE, "Invalid login credentials", "")
          ELSE LET userRow == values[CHOOSE i \in found :
                                       \A j \in found : i <= j]
               IN IF userRow.passwordHash = "" \/ userRow.salt = ""
                  THEN Result(FALSE, "Please set up your password first",
                              userRow.userId)
                  ELSE IF hashPasswordServerSide(data.password, userRow.salt)
                            # userRow.passwordHash
                  THEN Result(FALSE, "Invalid login credentials", "")
                  ELSE Result(TRUE, "", userRow.userId)

\* isValidEmail and isValidPhone on the emails and phones of the model: an
\* email has no white space, a phone is digits after an optional +
isValidEmail(email) == email \in {"foo@bar.com", "other@bar.com", "Foo@Bar.com"}

isValidPhone(phone) ==
  phone \in {"+14155551234", "+14155550000", "(415) 555-1234", "415.555.1234",
             "+1 415 555 0000"}

\* generateUserId: the id of the new row, named after the account
generateUserId(email) == IF email = emailOf("u1") THEN "u1" ELSE "u2"

handleRegister_open(values, data) ==
  IF \/ data.name = "" \/ data.email = "" \/ data.phone = ""
     \/ data.passwordHash = "" \/ data.salt = ""
  THEN Result(FALSE, "Missing required fields", "")
  ELSE IF ~isValidEmail(data.email)
  THEN Result(FALSE, "Invalid email format", "")
  ELSE IF ~isValidPhone(data.phone)
  THEN Result(FALSE, "Invalid phone format", "")
  ELSE Result(TRUE, "", generateUserId(data.email))

\* handleRegister on the rows of the Users sheet; the row it appends on
\* success is not kept, every response is answered from a sheet of UserSheets
handleRegister(values, data) ==
  IF \/ data.name = "" \/ data.email = "" \/ data.phone = ""
     \/ data.passwordHash = "" \/ data.salt = ""
  THEN Result(FALSE, "Missing required fields", "")
  ELSE IF ~isValidEmail(data.email)
  THEN Result(FALSE, "Invalid email format", "")
  ELSE IF ~isValidPhone(data.phone)
  THEN Result(FALSE, "Invalid phone format", "")
  ELSE IF \E i \in 1..Len(values) :
            values[i].email = data.email \/ values[i].phone = data.phone
  THEN Result(FALSE, "User already exists with this email or phone", "")
  ELSE Result(TRUE, "", generateUserId(data.email))

\* apiCall from the parsed response to its end (customEmojis.js 107-128):
\* a result with an error field is thrown as an Error with that message
apiCallOutcome(result) ==
  IF result.error # "" THEN [kind |-> "error", error |-> result.error]
  ELSE IF result.success
  THEN [kind |-> "ok", user |-> BackendUser(result.userId)]
  ELSE [kind |-> "empty"]

-----------------------------------------------------------------------------
(* The authentication operations of AuthProvider against the gateway *)

\* the backend answers the request data of a login from the sheet values
LoginResponse(i, values, data) ==
  /\ ops[i].pc = "awaiting"
  /\ ops[i].kind = "login"
  /\ GatewayResponse(i, apiCallOutcome(handleLogin(values, data)))

\* the backend answers the request of a register or setupPassword call,
\* sent with salt, from the sheet values
RegisterResponse(i, values, salt) ==
  /\ ops[i].pc = "awaiting"
  /\ ops[i].kind \in {"register", "setupPassword"}
  /\ LET userData == IF ops[i].kind = "setupPassword"
                     THEN SetupForm(ops[i].user, ops[i].password)
                     ELSE RegisterForm(ops[i].password)
         data == registerRequest(userData, salt)
     IN GatewayResponse(i, apiCallOutcome(handleRegister(values, data)))

NextGateway ==
  \/ InitializeAuth(FALSE)
  \/ \E i \in Slots, identifier \in Identifiers : LoginStart(i, identifier)
  \/ \E i \in Slots, password \in Passwords : RegisterStart(i, password)
  \/ \E i \in Slots, password \in Passwords : SetupPasswordStart(i, password)
  \/ \E i \in Slots, identifier \in Identifiers :
       RequestPasswordResetStart(i, identifier)
  \/ \E i \in Slots, password \in Passwords : ResetPasswordStart(i, password)
  \/ \E i \in Slots : HashDone(i)
  \/ \E i \in Slots, o \in Outcomes : GatewayResponse(i, o)
  \/ \E i \in Slots, values \in UserSheets, data \in LoginRequests :
       LoginResponse(i, values, data)
  \/ \E i \in Slots, values \in UserSheets, salt \in Salts :
       RegisterResponse(i, values, salt)
  \/ Connectivity

SpecGateway == Init /\ [][NextGateway]_vars

-----------------------------------------------------------------------------
(* The migration service called directly, on any storage content *)

\* storage contents: any old-prefixed keys; new-prefixed keys as this
\* application writes them (the marker is absent or 'completed' with a date)
MigrationStores ==
  {[k \in Keys |->
      CASE k = <<oldPrefix, "user", "">> -> ou
        [] k = <<oldPrefix, "dark_mode", "">> -> od
        [] k = <<oldPrefix, "migration_status", "">> -> om
        [] k = <<newPrefix, "user", "">> -> nu
        [] k = <<newPrefix, "dark_mode", "">> -> nd
        [] k = migrationKey -> IF done THEN Text("completed") ELSE Null
        [] k = migrationDateKey -> IF done THEN toISOString(0) ELSE Null
        [] OTHER -> Null] :
     ou \in {Null, Json(BackendUser("u1"))},
     od \in {Null, Text("true")},
     om \in {Null, Text("pending")},
     nu \in {Null, Json(BackendUser("u2"))},
     nd \in {Null, Text("false")},
     done \in BOOLEAN}

InitMigration ==
  /\ ls \in MigrationStores
  /\ state = initialState
  /\ booted = FALSE
  /\ ops = [i \in Slots |-> Idle]
  /\ online = TRUE
  /\ SyncIdle
  /\ hist = HistInit(ls)
  /\ ev = [op |-> "init"]

\* hist.runs counts the runs of migrateStorageKeys since the last other write
\* (2 stands for two or more); hist.before and hist.after are the storage
\* before and after the first of them
MigrateStorageKeys ==
  /\ LET r == migrateStorageKeys(ls, now)
     IN /\ ls' = r.ls
        /\ ev' = [op |-> "migrateStorageKeys", success |-> r.success,
                  migratedKeys |-> r.migratedKeys, message |-> r.message]
        /\ hist' = IF hist.runs = 0
                   THEN [hist EXCEPT !.runs = 1, !.before = ls, !.after = r.ls]
                   ELSE [hist EXCEPT !.runs = 2]
  /\ UNCHANGED <<state, booted, ops, online>>
  /\ UNCHANGED syncVars

CleanupOldKeys ==
  /\ LET r == cleanupOldKeys(ls)
     IN /\ ls' = r.ls
        /\ ev' = [op |-> "cleanupOldKeys", success |-> r.success,
                  cleanedKeys |-> r.cleanedKeys]
  /\ hist' = [hist EXCEPT !.runs = 0]
  /\ UNCHANGED <<state, booted, ops, online>>
  /\ UNCHANGED syncVars

GetStorageItem(base) ==
  /\ LET r == getStorageItem(ls, base)
     IN /\ ls' = r.ls
        /\ ev' = [op |-> "getStorageItem", value |-> r.value]
  /\ hist' = [hist EXCEPT !.runs = 0]
  /\ UNCHANGED <<state, booted, ops, online>>
  /\ UNCHANGED syncVars

\* toggleDarkMode writes the new mode with setStorageItem
SetStorageItem(base, value) ==
  /\ ls' = setStorageItem(ls, base, value)
  /\ ev' = [op |-> "setStorageItem"]
  /\ hist' = [hist EXCEPT !.runs = 0]
  /\ UNCHANGED <<state, booted, ops, online>>
  /\ UNCHANGED syncVars

\* clearAuth removes the persisted Session
RemoveSession ==
  /\ ls' = removeItem(ls, getStorageKey("user"))
  /\ ev' = [op |-> "removeItem"]
  /\ hist' = [hist EXCEPT !.runs = 0]
  /\ UNCHANGED <<state, booted, ops, online>>
  /\ UNCHANGED syncVars

\* time passes
Tick ==
  /\ now < MaxTime
  /\ now' = now + 1
  /\ ev' = [op |-> "tick"]
  /\ UNCHANGED <<ls, state, booted, ops, online, hist>>
  /\ UNCHANGED <<moods, syncQueue, nextId, drains, calls, remote, apiCalls>>

NextMigration ==
  \/ MigrateStorageKeys
  \/ CleanupOldKeys
  \/ \E base \in {"user", "dark_mode"} : GetStorageItem(base)
  \/ \E value \in {Text("true"), Text("false")} :
       SetStorageItem("dark_mode", value)
  \/ RemoveSession
  \/ Tick

SpecMigration == InitMigration /\ [][NextMigration]_vars

-----------------------------------------------------------------------------
(* The migration service on a storage with a quota *)

\* a run of migrateStorageKeys in which the values of the old keys in
\* tooLarge do not fit, or nothing fits (full)
MigrateStorageKeysOnQuota(tooLarge, full) ==
  /\ LET r == migrateStorageKeysOnQuota(ls, now, tooLarge, full)
     IN /\ ls' = r.ls
        /\ ev' = [op |-> "migrateStorageKeys", success |-> r.success,
                  migratedKeys |-> r.migratedKeys, errors |-> r.errors,
                  message |-> r.message, full |-> full]
        /\ hist' = IF hist.runs = 0
                   THEN [hist EXCEPT !.runs = 1, !.before = ls, !.after = r.ls]
                   ELSE [hist EXCEPT !.runs = 2]
  /\ UNCHANGED <<state, booted, ops, online>>
  /\ UNCHANGED syncVars

NextQuota ==
  \/ \E tooLarge \in SUBSET oldKeysOf(ls), full \in BOOLEAN :
       MigrateStorageKeysOnQuota(tooLarge, full)
  \/ CleanupOldKeys
  \/ \E base \in {"user", "dark_mode"} : GetStorageItem(base)
  \/ \E value \in {Text("true"), Text("false")} :
       SetStorageItem("dark_mode", value)
  \/ RemoveSession
  \/ Tick

SpecQuota == InitMigration /\ [][NextQuota]_vars

-----------------------------------------------------------------------------
(* Application start on any storage content, with or without free quota *)

\* what a device may hold when the application starts: under either prefix a
\* Session that is valid, lacks a field or is not JSON; a preference; the
\* marker; the password setup marker of the user
BootStores ==
  {[k \in Keys |->
      CASE k = <<oldPrefix, "user", "">> -> ou
        [] k = <<oldPrefix, "dark_mode", "">> -> od
        [] k = <<newPrefix, "user", "">> -> nu
        [] k = migrationKey -> IF done THEN Text("completed") ELSE Null
        [] k = migrationDateKey -> IF done THEN toISOString(0) ELSE Null
        [] k = passwordSetupKey("u1") -> ps
        [] OTHER -> Null] :
     ou \in {Null, Json(BackendUser("u1")), Text("{"),
             Json(UserObj("u1", "", emailOf("u1"), FALSE))},
     od \in {Null, Text("true")},
     nu \in {Null, Json(BackendUser("u1")), Text("{"),
             Json(UserObj("u1", "name", emailOf("u1"), TRUE))},
     ps \in {Null, Text("completed")},
     done \in BOOLEAN}

InitBoot ==
  /\ ls \in BootStores
  /\ state = initialState
  /\ booted = FALSE
  /\ ops = [i \in Slots |-> Idle]
  /\ online = TRUE
  /\ SyncIdle
  /\ hist = HistInit(ls)
  /\ ev = [op |-> "init"]

NextBoot ==
  \/ \E full \in BOOLEAN : InitializeAuth(full)
  \/ Reload
  \/ Logout
  \/ SkipPasswordSetup
  \/ CleanupOldKeys

SpecBoot == InitBoot /\ [][NextBoot]_vars

-----------------------------------------------------------------------------
(* The password field of a form: validatePassword on what the user enters *)

\* the characters the user types
Chars == {"a", "b", "c", "A", "B", "1", "2", "3", "!", "~"}

\* n characters x, y, x, ... that the user pastes into the empty field
Pad(n) == [i \in 1..n |-> IF i % 2 = 1 THEN "x" ELSE "y"]

Pastes == {Pad(n) : n \in 1..MaxPad} \cup Passwords

\* the characters of the password that are not of a pasted Pad
typed(password) ==
  Cardinality({i \in 1..Len(password) : password[i] \notin {"x", "y"}})

\* const validation = validatePassword(formData.password)
Validated(password) ==
  [op |-> "validatePassword", password |-> password,
   validation |-> validatePassword(password)]

InitPassword ==
  /\ ls = EmptyStorage
  /\ state = initialState
  /\ booted = FALSE
  /\ ops = [i \in Slots |-> Idle]
  /\ online = TRUE
  /\ SyncIdle
  /\ hist = HistInit(ls)
  /\ ev = Validated(<<>>)

Paste(password) ==
  /\ ev.password = <<>>
  /\ ev' = Validated(password)
  /\ UNCHANGED <<authVars, online, hist>>
  /\ UNCHANGED syncVars

TypeChar(c) ==
  /\ typed(ev.password) < MaxTail
  /\ ev' = Validated(Append(ev.password, c))
  /\ UNCHANGED <<authVars, online, hist>>
  /\ UNCHANGED syncVars

NextPassword ==
  \/ \E password \in Pastes : Paste(password)
  \/ \E c \in Chars : TypeChar(c)

SpecPassword == InitPassword /\ [][NextPassword]_vars

-----------------------------------------------------------------------------
(* The offline store and the gateway: the UI calls apiCall, drains replay *)

\* the payload of getUserMoods and getUserStats, which no claim refers to
NoPayload == "none"

InitSync ==
  /\ ls = EmptyStorage
  /\ state = initialState
  /\ booted = FALSE
  /\ ops = [i \in Slots |-> Idle]
  /\ online \in BOOLEAN
  /\ SyncIdle
  /\ hist = HistInit(ls)
  /\ ev = [op |-> "init"]

\* hist.enqueued: the payloads saveMoodOffline has queued
Saved(h, r, payload) ==
  IF r.ok THEN [h EXCEPT !.enqueued = @ \cup {payload}] ELSE h

\* hist.submitted: the mood entries the UI has passed to apiCall;
\* hist.onlyOffline: every call of the UI so far was made offline
Called(action, payload, onl) ==
  LET h == IF action = "addMood"
           THEN [hist EXCEPT !.submitted = @ \cup {payload}]
           ELSE hist
  IN IF onl THEN [h EXCEPT !.onlyOffline = FALSE] ELSE h

\* apiCall up to its first suspension (lines 81-105): offline, the whole
\* call; online, up to fetch.  A mood entry is submitted once.
ApiCallStart(action, payload) ==
  /\ apiCalls < MaxApiCalls
  /\ apiCalls' = apiCalls + 1
  /\ action = "addMood" => payload \notin hist.submitted
  /\ action = "addMood" => Earlier(payload) \subseteq hist.submitted
  /\ IF ~online
     THEN IF action = "addMood"
          THEN /\ LET r == saveMoodOffline(moods, syncQueue, nextId, payload, now)
                  IN /\ moods' = r.moods
                     /\ syncQueue' = r.syncQueue
                     /\ nextId' = r.nextId
                     /\ hist' = Saved(Called(action, payload, online), r, payload)
               /\ UNCHANGED calls
          ELSE /\ hist' = Called(action, payload, online)
               /\ UNCHANGED <<moods, syncQueue, nextId, calls>>
     ELSE /\ calls' = calls (+) One([action |-> action, payload |-> payload])
          /\ hist' = Called(action, payload, online)
          /\ UNCHANGED <<moods, syncQueue, nextId>>
  /\ UNCHANGED <<now, drains, remote, online>>
  /\ UNCHANGED <<authVars, ev>>

\* apiCall of the UI from the settling of fetch to its end (lines 106-138)
ApiCallResponse(call, o) ==
  /\ BagIn(call, calls)
  /\ LET action == call.action
         payload == call.payload
         settled == apiCallSettled(action, o, online)
     IN
     /\ calls' = calls (-) One(call)
     /\ CASE settled = "return" ->
               /\ remote' = accepted(remote, action, payload, o)
               /\ drains' = IF StartsSync(action)
                            THEN syncOfflineData(drains, syncQueue, online)
                            ELSE drains
               /\ UNCHANGED <<moods, syncQueue, nextId, hist>>
          [] settled = "saveOffline" ->
               /\ LET r == saveMoodOffline(moods, syncQueue, nextId, payload, now)
                  IN /\ moods' = r.moods
                     /\ syncQueue' = r.syncQueue
                     /\ nextId' = r.nextId
                     /\ hist' = Saved(hist, r, payload)
               /\ UNCHANGED <<drains, remote>>
          [] settled = "throw" ->
               UNCHANGED <<moods, syncQueue, nextId, drains, remote, hist>>
  /\ UNCHANGED <<now, online, apiCalls>>
  /\ UNCHANGED <<authVars, ev>>

\* hist.enqueued after a step of a drain
Queued(payloads) == [hist EXCEPT !.enqueued = @ \cup payloads]

\* a drain that has a next item invokes apiCall once more
CanCall(dr, i) == i <= Len(dr.queue) => apiCalls < MaxApiCalls

\* getAll has succeeded: the drain calls apiCall for its first item
DrainCall(dr) ==
  /\ BagIn(dr, drains)
  /\ dr.pc = "loop"
  /\ CanCall(dr, dr.i)
  /\ LET c == callItem(dr, moods, syncQueue, nextId, now, online)
     IN /\ drains' = (drains (-) One(dr)) (+) c.drains
        /\ moods' = c.moods
        /\ syncQueue' = c.syncQueue
        /\ nextId' = c.nextId
        /\ hist' = Queued(c.queued)
        /\ apiCalls' = apiCalls + c.called
  /\ UNCHANGED <<now, calls, remote, online>>
  /\ UNCHANGED <<authVars, ev>>

\* the fetch of a replay settles: apiCall lines 106-138, then the loop of
\* syncOfflineData up to its next suspension.  The drain that a successful
\* replay starts reads the queue before the delete of this drain.
DrainResponse(dr, o) ==
  /\ BagIn(dr, drains)
  /\ dr.pc = "fetching"
  /\ LET item == dr.queue[dr.i]
         settled == apiCallSettled(item.action, o, online)
     IN
     CASE settled = "return" ->
            /\ CanCall(dr, dr.i + 1)
            /\ remote' = accepted(remote, item.action, item.payload, o)
            /\ LET b == loopBody(dr, "ok", moods, syncQueue, nextId, now, online)
               IN /\ drains' = (syncOfflineData(drains, syncQueue, online)
                                  (-) One(dr)) (+) b.drains
                  /\ moods' = b.moods
                  /\ syncQueue' = b.syncQueue
                  /\ nextId' = b.nextId
                  /\ hist' = Queued(b.queued)
                  /\ apiCalls' = apiCalls + b.called
       [] settled = "saveOffline" ->
         /\ LET r == saveMoodOffline(moods, syncQueue, nextId, item.payload, now)
               IN /\ moods' = r.moods
                  /\ syncQueue' = r.syncQueue
                  /\ nextId' = r.nextId
                  /\ hist' = Saved(hist, r, item.payload)
                  /\ drains' = (drains (-) One(dr)) (+)
                                 One([dr EXCEPT !.pc = IF r.ok THEN "saved"
                                                       ELSE "rejected"])
            /\ UNCHANGED <<remote, apiCalls>>
       [] settled = "throw" ->
            /\ CanCall(dr, dr.i + 1)
            /\ LET b == loopBody(dr, "failed", moods, syncQueue, nextId, now,
                                 online)
               IN /\ drains' = (drains (-) One(dr)) (+) b.drains
                  /\ moods' = b.moods
                  /\ syncQueue' = b.syncQueue
                  /\ nextId' = b.nextId
                  /\ hist' = Queued(b.queued)
                  /\ apiCalls' = apiCalls + b.called
            /\ UNCHANGED remote
  /\ UNCHANGED <<now, calls, online>>
  /\ UNCHANGED <<authVars, ev>>

\* the transaction of saveMoodOffline that a replay started has ended: apiCall
\* returns or throws, then the loop of syncOfflineData up to its next
\* suspension
DrainSaved(dr) ==
  /\ BagIn(dr, drains)
  /\ dr.pc \in {"saved", "rejected"}
  /\ CanCall(dr, dr.i + 1)
  /\ LET res == IF dr.pc = "saved" THEN "offline" ELSE "failed"
         b == loopBody(dr, res, moods, syncQueue, nextId, now, online)
     IN /\ drains' = (drains (-) One(dr)) (+) b.drains
        /\ moods' = b.moods
        /\ syncQueue' = b.syncQueue
        /\ nextId' = b.nextId
        /\ hist' = Queued(b.queued)
        /\ apiCalls' = apiCalls + b.called
  /\ UNCHANGED <<now, calls, remote, online>>
  /\ UNCHANGED <<authVars, ev>>

\* Date.now() moves on from the millisecond of the last stored mood (the
\* milliseconds in which no mood was stored are not told apart)
Millisecond ==
  /\ \E r \in moods : r.id = now
  /\ now' = now + 1
  /\ UNCHANGED <<moods, syncQueue, nextId, drains, calls, remote, online, hist>>
  /\ UNCHANGED <<apiCalls, authVars, ev>>

\* the browser's online/offline events
NetworkChange ==
  /\ online' = ~online
  /\ UNCHANGED <<moods, syncQueue, nextId, drains, calls, remote, now, hist>>
  /\ UNCHANGED <<apiCalls, authVars, ev>>

NextSync ==
  \/ \E payload \in Payloads : ApiCallStart("addMood", payload)
  \/ ApiCallStart("getUserMoods", NoPayload)
  \/ ApiCallStart("getUserStats", NoPayload)
  \/ \E call \in BagToSet(calls), o \in FetchOutcomes : ApiCallResponse(call, o)
  \/ \E dr \in BagToSet(drains) : DrainCall(dr)
  \/ \E dr \in BagToSet(drains), o \in FetchOutcomes : DrainResponse(dr, o)
  \/ \E dr \in BagToSet(drains) : DrainSaved(dr)
  \/ Millisecond
  \/ NetworkChange

SpecSync == InitSync /\ [][NextSync]_vars

-----------------------------------------------------------------------------
(* The drains of a device that has come back online and stays online, with *)
(* a backend that answers every call without error                         *)

\* the stores after the offline calls apiCall('addMood', A), ('addMood', B),
\* ... of n successive milliseconds
RECURSIVE SavedOffline(_)
SavedOffline(n) ==
  IF n = 0
  THEN [moods |-> {}, syncQueue |-> <<>>, nextId |-> 1, payloads |-> {}]
  ELSE LET b == SavedOffline(n - 1)
           moodData == CHOOSE x \in Payloads \ b.payloads :
                         Earlier(x) \subseteq b.payloads
           r == saveMoodOffline(b.moods, b.syncQueue, b.nextId, moodData,
                                n - 1)
       IN [moods |-> r.moods, syncQueue |-> r.syncQueue, nextId |-> r.nextId,
           payloads |-> b.payloads \cup {moodData}]

InitDrain ==
  /\ ls = EmptyStorage
  /\ state = initialState
  /\ booted = FALSE
  /\ ops = [i \in Slots |-> Idle]
  /\ online = TRUE
  /\ \E n \in 1..Cardinality(Payloads) :
       LET b == SavedOffline(n)
       IN /\ now = n
          /\ moods = b.moods
          /\ syncQueue = b.syncQueue
          /\ nextId = b.nextId
          /\ hist = [HistInit(ls) EXCEPT !.submitted = b.payloads,
                                         !.enqueued = b.payloads]
  /\ drains = EmptyBag
  /\ calls = EmptyBag
  /\ remote = EmptyBag
  /\ apiCalls = 0
  /\ ev = [op |-> "init"]

NextDrain ==
  \/ \E payload \in Payloads : ApiCallStart("addMood", payload)
  \/ ApiCallStart("getUserMoods", NoPayload)
  \/ \E call \in BagToSet(calls) : ApiCallResponse(call, "ok")
  \/ \E dr \in BagToSet(drains) : DrainCall(dr)
  \/ \E dr \in BagToSet(drains) : DrainResponse(dr, "ok")

SpecDrain == InitDrain /\ [][NextDrain]_vars

-----------------------------------------------------------------------------
(* saveMoodOffline request by request: the transaction on moods and        *)
(* syncQueue, src/src/utils/habits.js                                      *)

InitStore ==
  /\ ls = EmptyStorage
  /\ state = initialState
  /\ booted = FALSE
  /\ ops = [i \in Slots |-> Idle]
  /\ online = FALSE
  /\ SyncIdle
  /\ hist = HistInit(ls)
  /\ ev = [op |-> "init"]

\* ev of a step of saveMoodOffline(moodData)
StoreEvent(phase, moodData) ==
  [op |-> "saveMoodOffline", phase |-> phase, payload |-> moodData]

\* saveMoodOffline up to the request moodStore.add: the transaction is
\* created and moodWithId has the id Date.now().  calls holds the
\* invocations whose transaction has not finished.
SaveMoodOfflineStart(moodData) ==
  /\ moodData \notin hist.submitted
  /\ Earlier(moodData) \subseteq hist.submitted
  /\ calls' = calls (+) One([action |-> "saveMoodOffline",
                             payload |-> moodData, id |-> now,
                             pc |-> "created"])
  /\ hist' = [hist EXCEPT !.submitted = @ \cup {moodData}]
  /\ ev' = StoreEvent("created", moodData)
  /\ UNCHANGED <<now, moods, syncQueue, nextId, drains, remote, apiCalls>>
  /\ UNCHANGED <<authVars, online>>

\* readwrite transactions on the same stores run one after the other, in
\* the order of their creation
Running(call) ==
  /\ BagIn(call, calls)
  /\ \A c \in BagToSet(calls) : c.payload \notin Earlier(call.payload)

\* the request moodStore.add of the running transaction settles: with an
\* error when the key exists (request.onerror rejects the promise and the
\* transaction aborts), else with success: request.onsuccess requests
\* syncStore.add and resolves the promise
MoodAddSettles(call) ==
  /\ Running(call)
  /\ call.pc = "created"
  /\ IF ~saveMoodOffline(moods, syncQueue, nextId, call.payload, call.id).ok
     THEN /\ calls' = calls (-) One(call)
          /\ ev' = StoreEvent("rejected", call.payload)
          /\ UNCHANGED hist
     ELSE /\ calls' = (calls (-) One(call))
                        (+) One([call EXCEPT !.pc = "resolved"])
          /\ ev' = StoreEvent("resolved", call.payload)
          /\ hist' = [hist EXCEPT !.enqueued = @ \cup {call.payload}]
  /\ UNCHANGED <<now, moods, syncQueue, nextId, drains, remote, apiCalls>>
  /\ UNCHANGED <<authVars, online>>

\* the request syncStore.add succeeds and the transaction completes: the
\* two records are stored
TransactionCompletes(call) ==
  /\ Running(call)
  /\ call.pc = "resolved"
  /\ LET r == saveMoodOffline(moods, syncQueue, nextId, call.payload, call.id)
     IN /\ moods' = r.moods
        /\ syncQueue' = r.syncQueue
        /\ nextId' = r.nextId
  /\ calls' = calls (-) One(call)
  /\ ev' = StoreEvent("complete", call.payload)
  /\ UNCHANGED <<now, drains, remote, apiCalls, hist>>
  /\ UNCHANGED <<authVars, online>>

\* the transaction aborts (a request fails for lack of quota, or the commit
\* fails): nothing of it is stored; a promise that has not settled is
\* rejected by request.onerror
TransactionAborts(call) ==
  /\ Running(call)
  /\ calls' = calls (-) One(call)
  /\ ev' = StoreEvent(IF call.pc = "created" THEN "rejected" ELSE "abort",
                      call.payload)
  /\ UNCHANGED <<now, moods, syncQueue, nextId, drains, remote, apiCalls>>
  /\ UNCHANGED <<authVars, online, hist>>

NextStore ==
  \/ \E moodData \in Payloads : SaveMoodOfflineStart(moodData)
  \/ \E call \in BagToSet(calls) : MoodAddSettles(call)
  \/ \E call \in BagToSet(calls) : TransactionCompletes(call)
  \/ \E call \in BagToSet(calls) : TransactionAborts(call)
  \/ Tick

SpecStore == InitStore /\ [][NextStore]_vars

-----------------------------------------------------------------------------
(* Claims *)

sessionKey == <<newPrefix, "user", "">>

\* the fitmood_ counterpart of a moodly_ key
NewKeyOf(k) == <<newPrefix, k[2], k[3]>>

\* C1: after logout, until a login, register or setupPassword invoked after
\* it succeeds, reading the persisted Session gives no value and the state is
\* Unauthenticated, whatever calls were awaiting the gateway at the logout.
C1_NoSessionAfterLogout ==
  hist.loggedOut =>
    /\ getStorageItem(ls, "user").value = Null
    /\ state.user = Null
    /\ ~state.isAuthenticated

\* C2: a step of login or register that is not its successful completion
\* leaves localStorage, the in-memory user and isAuthenticated as they were.
C2_FailedLoginKeepsSession ==
  [][(ev'.op \in {"login", "register"} /\ ~ev'.success)
       => /\ ls' = ls
          /\ state'.user = state.user
          /\ state'.isAuthenticated = state.isAuthenticated]_vars

\* a login or register has failed while a user was authenticated
C2_Witness ==
  /\ ev.op \in {"login", "register"}
  /\ ev.phase = "done"
  /\ ~ev.success
  /\ state.user # Null
  /\ ls[sessionKey] = JSONstringify(state.user)

\* the device held data under the old prefix when this version first ran
HeldLegacyData ==
  \E k \in Keys : startsWith(k, oldPrefix) /\ hist.init[k] # Null

\* C9: promptPasswordSetup returns true only if the marker is completed, the
\* device holds data migrated from the old prefix, the Session has no
\* hasPassword and password_setup_<userId> is not 'completed'; so never for a
\* user of a device that never held a moodly_ key.
C9_PromptOnlyForMigratedUsers ==
  (ev.op = "initializeAuth" /\ ev.prompt) =>
    /\ isMigrationComplete(ls)
    /\ HeldLegacyData
    /\ ~JSONparse(ls[sessionKey]).value.hasPassword
    /\ ls[passwordSetupKey(ev.userId)] # Text("completed")

\* the device started with the record of legacy user u under moodly_user
LegacyUser(u) == hist.init[<<oldPrefix, "user", "">>] = Json(BackendUser(u))

\* C10: for a legacy user u the first initializeAuth (migration, then
\* promptPasswordSetup(u)) gives true; once setupPassword has succeeded for
\* u, promptPasswordSetup(u) is false in every later state.
C10_PromptUntilSetup ==
  /\ \A u \in UserIds :
       (LegacyUser(u) /\ ev.op = "initializeAuth" /\ ev.first)
         => (ev.prompt /\ ev.userId = u /\ state.needsPasswordSetup)
  /\ \A u \in hist.setupDone : ~promptPasswordSetup(ls, u).ret

\* a legacy user has set a password up, logged out, logged in again and
\* loaded the application again
C10_Witness ==
  /\ LegacyUser("u1")
  /\ "u1" \in hist.setupDone
  /\ ev.op = "initializeAuth"
  /\ ev.userId = "u1"
  /\ ~JSONparse(ls[sessionKey]).value.hasPassword

markerBases == {"migration_status", "migration_date"}

C3_OfflineAddMoodQueuesOne ==
  [][(~online /\ hist'.submitted # hist.submitted)
       => /\ (hist'.submitted \ hist.submitted) \subseteq hist'.enqueued
          /\ Len(syncQueue') = Len(syncQueue) + 1
          /\ Cardinality(moods') = Cardinality(moods) + 1]_vars

\* enqueue order is key order
Sorted(q) == \A j \in 1..(Len(q) - 1) : q[j].id < q[j + 1].id

\* this step ends the replay of item dr.i of drain dr
Completes(dr) ==
  /\ CopiesIn(dr, drains') < CopiesIn(dr, drains)
  /\ \/ dr.pc \in {"saved", "rejected"}
     \/ /\ dr.pc = "fetching"
        /\ \A pc \in {"saved", "rejected"} :
             CopiesIn([dr EXCEPT !.pc = pc], drains')
               <= CopiesIn([dr EXCEPT !.pc = pc], drains)

\* the call that this step ends has returned: the backend appended the row,
\* or the payload was saved offline again
Returned(dr) ==
  \/ dr.pc = "saved"
  \/ dr.pc = "fetching" /\ BagCardinality(remote') > BagCardinality(remote)

\* C4: a drain reads the whole queue in enqueue order and replays it item by
\* item in that order; the step that ends a replay deletes the operation when
\* the call returned and keeps it when the call threw, and in both cases the
\* drain goes on to the next item.
C4_DrainReplaysInOrder ==
  [][/\ Sorted(syncQueue')
     /\ \A dr \in BagToSet(drains') :
          /\ dr.i \in 1..Len(dr.queue)
          /\ (dr.pc = "loop" /\ ~BagIn(dr, drains))
               => (dr.i = 1 /\ dr.queue = syncQueue)
     /\ \A dr \in BagToSet(drains) :
          Completes(dr) =>
            LET id == dr.queue[dr.i].id
            IN /\ Returned(dr) => id \notin QueueIds(syncQueue')
               /\ (~Returned(dr) /\ id \in QueueIds(syncQueue))
                    => id \in QueueIds(syncQueue')
               /\ dr.i < Len(dr.queue) =>
                    \E next \in BagToSet(drains') :
                      /\ next.queue = dr.queue
                      /\ next.i = dr.i + 1
                      /\ next.pc # "loop"]_vars

\* A, B and C were queued and replayed; the backend appended A and C and never
\* B; the drain that replayed them has resolved (the drains that its replays
\* started have made no call yet) and the queue is [B]
C4_Witness ==
  /\ \A dr \in BagToSet(drains) : dr.pc = "loop"
  /\ nextId = 4
  /\ syncQueue = <<[id |-> 2, action |-> "addMood", payload |-> "B"]>>
  /\ BagIn("A", remote)
  /\ BagIn("C", remote)
  /\ ~BagIn("B", remote)
  /\ hist.enqueued = {"A", "B", "C"}

C6_OfflineAddsAllQueued ==
  hist.onlyOffline =>
    /\ Len(syncQueue) = Cardinality(hist.submitted)
    /\ Cardinality(moods) = Cardinality(hist.submitted)
    /\ \A m \in moods : ~m.synced

\* the passwords that fail validation under the default PASSWORD_CONFIG
Rejected(password) ==
  Len(password) < 8 \/ \A i \in 1..Len(password) : password[i] # "!"

\* a step of register or resetPassword that starts with password
PasswordStep(i, password) ==
  RegisterStart(i, password) \/ ResetPasswordStart(i, password)

\* a step of login or requestPasswordReset that starts with identifier
IdentifierStep(i, identifier) ==
  LoginStart(i, identifier) \/ RequestPasswordResetStart(i, identifier)

\* the step ends the operation with {success: false, error} and without
\* having invoked apiCall, and leaves no call behind
FailsLocally ==
  /\ ev'.phase = "done"
  /\ ~ev'.success
  /\ ev'.error \notin {NoError, "", "undefined"}
  /\ ~ev'.called
  /\ ops' = ops

\* C11: register and resetPassword with a password that fails validation, and
\* login and requestPasswordReset with the identifier 'not-an-identifier',
\* return {success: false, error} in the step that starts them, without a
\* call of apiCall; a step calls apiCall only when it starts login or
\* requestPasswordReset with an email or a phone number, or when it ends the
\* hashing of a password that has passed validation.
C11_ValidationBeforeGateway ==
  [][/\ \A i \in Slots, password \in Passwords :
          (PasswordStep(i, password) /\ Rejected(password)) => FailsLocally
     /\ \A i \in Slots :
          (IdentifierStep(i, "not-an-identifier")) => FailsLocally
     /\ \A i \in Slots :
          ops'[i].pc = "hashing" =>
            \/ ops[i].pc = "hashing"
            \/ \E password \in Passwords :
                 /\ ~Rejected(password)
                 /\ PasswordStep(i, password) \/ SetupPasswordStart(i, password)
     /\ (ev'.op \in {"login", "register", "setupPassword"} \cup ResetKinds
           /\ ev'.called)
          => \/ \E i \in Slots : ops[i].pc = "hashing" /\ HashDone(i)
             \/ \E i \in Slots, identifier \in {"foo@bar.com", "+14155551234"} :
                  IdentifierStep(i, identifier)]_vars

\* a resetPassword with a password of three characters and no special
\* character has returned both validation errors, and no call is under way
C11_Witness ==
  /\ ev.op = "resetPassword"
  /\ ev.phase = "done"
  /\ ~ev.called
  /\ ev.error = "Password must be at least 8 characters long. Password must contain at least one special character"
  /\ \A i \in Slots : ops[i] = Idle

\* the Session under the fitmood_ key once the migration has run: the value
\* of the key, or the value migrated from the moodly_ key when the marker was
\* not set and the copy could be written
SessionAtStart(l, full) ==
  IF l[sessionKey] # Null THEN l[sessionKey]
  ELSE IF ~isMigrationComplete(l) /\ ~full THEN l[<<oldPrefix, "user", "">>]
  ELSE Null

ValidSession(v) ==
  /\ IsJson(v)
  /\ v.json.userId # ""
  /\ v.json.name # ""
  /\ v.json.email # ""

Unauthenticated(s) ==
  /\ ~s.loading
  /\ ~s.isAuthenticated
  /\ s.user = Null
  /\ ~s.needsPasswordSetup

\* C12: a run of initializeAuth, whether the migration succeeds or fails,
\* ends with loading false; a migration that runs and succeeds has set the
\* marker and given every moodly_ key its fitmood_ counterpart before the
\* Session is read; with no Session the state is Unauthenticated; a Session that is not
\* JSON or lacks userId, name or email is removed from storage and the state
\* is Unauthenticated; a valid Session is kept and the state is Authenticated
\* with that user and with needsPasswordSetup as promptPasswordSetup tells.
C12_InitializeAuthOutcome ==
  [][\A full \in BOOLEAN :
       InitializeAuth(full) =>
         LET v == SessionAtStart(ls, full)
         IN /\ ~state'.loading
            /\ ~full => isMigrationComplete(ls')
            /\ (~full /\ ~isMigrationComplete(ls)) =>
                 \A k \in Keys :
                   (startsWith(k, oldPrefix) /\ ls[k] # Null
                      /\ NewKeyOf(k) # sessionKey)
                     => ls'[NewKeyOf(k)] # Null
            /\ v = Null => (Unauthenticated(state') /\ ls'[sessionKey] = Null)
            /\ (v # Null /\ ~ValidSession(v))
                 => (Unauthenticated(state') /\ ls'[sessionKey] = Null)
            /\ ValidSession(v) =>
                 /\ ~Unauthenticated(state')
                 /\ state'.isAuthenticated
                 /\ state'.user = v.json
                 /\ ls'[sessionKey] = v
                 /\ state'.needsPasswordSetup
                      = promptPasswordSetup(ls', v.json.userId).ret]_vars

\* the application has started on a device whose quota is exhausted: the
\* migration has failed (no marker, the preference is not copied) and the
\* valid Session under the fitmood_ key has given Authenticated
C12_Witness ==
  /\ booted
  /\ ev.op = "initializeAuth"
  /\ ~isMigrationComplete(ls)
  /\ ls[<<oldPrefix, "dark_mode", "">>] # Null
  /\ ls[<<newPrefix, "dark_mode", "">>] = Null
  /\ state.isAuthenticated
  /\ ~state.loading

\* C13: a login with an email or a phone number that the backend rejects
\* gives the same result and the same state whatever the sheet holds: the
\* identifier is absent, the password is wrong, or the account is a legacy
\* account without password; the error is 'Invalid login credentials'.
C13_LoginEnumerationResistance ==
  [][\A i \in Slots, values \in UserSheets, data \in LoginRequests :
       (LoginResponse(i, values, data) /\ ~handleLogin(values, data).success)
         => /\ ~ev'.success
            /\ ev'.error = "Invalid login credentials"
            /\ state'.error = "Invalid login credentials"
            /\ state'.user = state.user
            /\ state'.isAuthenticated = state.isAuthenticated
            /\ state'.needsPasswordSetup = state.needsPasswordSetup
            /\ ls' = ls]_vars

\* the backend has told a login that the account has no password yet, and
\* the login has returned 'Invalid login credentials'
C13_Witness ==
  /\ ev.op = "login"
  /\ ev.phase = "done"
  /\ ev.thrown = "Please set up your password first"
  /\ ev.error = "Invalid login credentials"
  /\ state.error = "Invalid login credentials"

\* C14: when the backend answers a login with a failure (unknown identifier,
\* wrong password, legacy account), apiCall throws nothing and returns the
\* result to AuthenticationService.login.
C14_GatewayReturnsBusinessFailures ==
  [][\A i \in Slots, values \in UserSheets, data \in LoginRequests :
       (LoginResponse(i, values, data) /\ ~handleLogin(values, data).success)
         => ev'.thrown = NoError]_vars

AuthOperations == {"login", "register", "setupPassword"} \cup ResetKinds

\* C15: a step in which login, register, setupPassword, requestPasswordReset
\* or resetPassword invokes apiCall while offline ends the operation: apiCall
\* throws the 'You are offline' error, nothing is written to the offline
\* store, and the error of the result is that message.
C15_OfflineErrorVerbatim ==
  [][(ev'.op \in AuthOperations /\ ev'.called /\ ~online)
       => /\ ev'.phase = "done"
          /\ ev'.thrown = offlineMessage
          /\ syncQueue' = syncQueue
          /\ moods' = moods
          /\ ~ev'.success
          /\ ev'.error = offlineMessage]_vars

\* C16: when a call of apiCall by the UI, whatever its action, gets a result
\* without error while online and operations are queued, the step starts a
\* drain of the queue as it is.
C16_AnySuccessStartsDrain ==
  [][\A call \in BagToSet(calls) :
       (ApiCallResponse(call, "ok") /\ online /\ syncQueue # <<>>)
         => \E dr \in BagToSet(drains') :
              /\ dr = [pc |-> "loop", queue |-> syncQueue, i |-> 1]
              /\ CopiesIn(dr, drains') > CopiesIn(dr, drains)]_vars

\* C17: a run of cleanupOldKeys that finds a marker other than 'completed'
\* returns success false and leaves localStorage as it is; a run that finds
\* the marker 'completed' returns success true, leaves no moodly_ key and
\* leaves every other key with its value.
C17_CleanupFailsClosed ==
  [][ev'.op = "cleanupOldKeys" =>
       IF ls[migrationKey] # Text("completed")
       THEN /\ ~ev'.success
            /\ ev'.cleanedKeys = {}
            /\ ls' = ls
       ELSE /\ ev'.success
            /\ ev'.cleanedKeys = {k \in Keys : k[1] = "moodly_" /\ ls[k] # Null}
            /\ \A k \in Keys :
                 IF k[1] = "moodly_" THEN ls'[k] = Null ELSE ls'[k] = ls[k]]_vars

\* a cleanup has deleted the moodly_ Session and preference and has kept the
\* fitmood_ Session
C17_Witness ==
  /\ ev.op = "cleanupOldKeys"
  /\ ev.success
  /\ {<<"moodly_", "user", "">>, <<"moodly_", "dark_mode", "">>}
       \subseteq ev.cleanedKeys
  /\ ls[sessionKey] # Null
  /\ \A k \in Keys : k[1] = "moodly_" => ls[k] = Null

\* the device held no fitmood_ key when the application first started
LegacyDevice == \A k \in Keys : startsWith(k, newPrefix) => hist.init[k] = Null

\* C18: on a device that started with moodly_ keys only, once initializeAuth
\* has run and the marker is 'completed', no key holds a value both under
\* moodly_ and under fitmood_.
C18_OneFormAfterMigration ==
  (LegacyDevice /\ booted /\ isMigrationComplete(ls)) =>
    \A k \in Keys :
      startsWith(k, oldPrefix) => (ls[k] = Null \/ ls[NewKeyOf(k)] = Null)

\* C19: validatePassword(p).isValid is true exactly when p has at least 8
\* characters and one of them is a special character, whatever digits and
\* uppercase letters p has; a p of fewer than 8 characters has the length
\* error among its errors; 'Ab1!2345' is valid and 'abc' is not.
C19_PasswordRule ==
  LET p == ev.password
      v == ev.validation
      hasSpecial == \E i \in 1..Len(p) : p[i] \in Special
  IN /\ v.isValid <=> (Len(p) >= 8 /\ hasSpecial)
     /\ Len(p) < 8 =>
          \E j \in 1..Len(v.errors) :
            v.errors[j] = "Password must be at least 8 characters long"
     /\ p = <<"A", "b", "1", "!", "2", "3", "4", "5">> => v.isValid
     /\ p = <<"a", "b", "c">> => ~v.isValid

\* a password of eight characters with a special character and neither a
\* digit nor an uppercase letter has been validated
C19_Witness ==
  /\ ev.password = <<"x", "y", "x", "y", "x", "y", "x", "!">>
  /\ ev.validation.isValid
  /\ ev.validation.errors = <<>>

\* the character classes of calculatePasswordStrength
Classes == {Lower, Upper, Digit, Special}

\* C20: typing a character of a class (lowercase, uppercase, digit, special)
\* that the password does not have yet gives a strength not below the
\* strength before, and every strength is between 0 and 100.
C20_StrengthMonotone ==
  [][\A c \in Chars :
       TypeChar(c) =>
         /\ ev'.validation.strength \in 0..100
         /\ (\E class \in Classes :
               c \in class /\ \A i \in 1..Len(ev.password) :
                                 ev.password[i] \notin class)
              => ev'.validation.strength >= ev.validation.strength]_vars

\* the fields of a persisted or sent record that hold a credential
CredentialFields == {"password", "passwordHash", "salt"}

\* the body that fetch has sent in the last step
LastMessage == IF "message" \in DOMAIN ev THEN ev.message ELSE NoMessage

\* C21: no message that login, register, resetPassword or setupPassword sends
\* to the gateway has the plaintext password, a password travels only as the
\* hash with its salt; no localStorage value and no record of moods or
\* syncQueue holds the password or its hash.
C21_PasswordNeverPlain ==
  /\ "password" \notin DOMAIN LastMessage
  /\ "passwordHash" \in DOMAIN LastMessage =>
       \E password \in Passwords :
         LastMessage.passwordHash = <<password, LastMessage.salt>>
  /\ \A k \in Keys :
       IsJson(ls[k]) => DOMAIN ls[k].json \cap CredentialFields = {}
  /\ \A j \in 1..Len(syncQueue) : syncQueue[j].action = "addMood"

\* a step of the setupPassword call of slot i that was not invoked in
\* NeedsPasswordSetup
SetupOutsidePrompt(i) ==
  /\ ev'.op = "setupPassword"
  /\ IF ops[i] = Idle
     THEN /\ ops'[i] # Idle \/ ops' = ops
          /\ ~NeedsPasswordSetup(state)
     ELSE /\ ops'[i] # ops[i]
          /\ ops[i].kind = "setupPassword"
          /\ ~ops[i].prompted

\* C22: a setupPassword invoked in another state than NeedsPasswordSetup
\* sends nothing to the gateway, returns a failure and leaves the Session and
\* the password_setup marker as they are.
C22_SetupOnlyWhenPrompted ==
  [][\A i \in Slots :
       SetupOutsidePrompt(i) =>
         /\ ev'.message = NoMessage
         /\ ~ev'.success
         /\ ls' = ls]_vars

\* C23: skipPasswordSetup changes needsPasswordSetup to false and nothing
\* else: not the in-memory user, not a localStorage key, and it starts no
\* call; when it is invoked in NeedsPasswordSetup, an initializeAuth on the
\* storage it leaves, with or without free quota, prompts again for the same
\* user.
C23_SkipIsNotPersisted ==
  [][ev'.op = "skipPasswordSetup" =>
       /\ state' = [state EXCEPT !.needsPasswordSetup = FALSE]
       /\ ls' = ls
       /\ ops' = ops
       /\ "message" \notin DOMAIN ev'
       /\ (state.user # Null /\ state.needsPasswordSetup) =>
            \A full \in BOOLEAN :
              LET r == initializeAuth(ls', initialState, now', full)
              IN /\ r.prompt
                 /\ r.ls = ls
                 /\ r.state.user = state.user
                 /\ r.state.needsPasswordSetup]_vars

\* the prompted user has skipped the setup: the state is Authenticated and
\* the storage is the one initializeAuth left
C23_Witness ==
  /\ ev.op = "skipPasswordSetup"
  /\ state.user = BackendUser("u1")
  /\ state.isAuthenticated
  /\ ~state.needsPasswordSetup
  /\ ls[sessionKey] = Json(BackendUser("u1"))
  /\ isMigrationComplete(ls)
  /\ ls[passwordSetupKey("u1")] = Null

\* the old keys that a run of migrateStorageKeys on l has to copy
ToCopy(l) ==
  {k \in Keys : startsWith(k, oldPrefix) /\ l[k] # Null
                  /\ l[NewKeyOf(k)] = Null}

MoodPayloads == {r.payload : r \in moods}

\* C25: the record of moods and the entry of syncQueue of a saveMoodOffline
\* are stored together or not at all, and a saveMoodOffline that has
\* reported success to its caller has stored both once its transaction has
\* finished.
C25_SaveMoodOfflineAtomic ==
  /\ MoodPayloads = QueuePayloads(syncQueue)
  /\ \A p \in hist.enqueued :
       \/ \E c \in BagToSet(calls) : c.payload = p
       \/ p \in MoodPayloads /\ p \in QueuePayloads(syncQueue)

\* C26: on a device that stays online, with every call and every delete
\* succeeding and nothing enqueued any more, the backend receives each
\* pending operation once, all drains taken together: never twice, and once
\* when the operation has left the queue.
C26_EachPendingSentOnce ==
  \A p \in hist.enqueued :
    /\ CopiesIn(p, remote) <= 1
    /\ p \notin QueuePayloads(syncQueue) => CopiesIn(p, remote) = 1

\* C27: once initializeAuth has finished, in every state the in-memory user
\* is non-null exactly when fitmood_user is present, and then fitmood_user
\* parses to the in-memory user.
C27_UserMatchesSession ==
  booted =>
    /\ state.user # Null <=> ls[sessionKey] # Null
    /\ state.user # Null =>
         JSONparse(ls[sessionKey]) = [threw |-> FALSE, value |-> state.user]

\* a login that was awaiting the gateway when the user logged out has
\* completed: the user and the Session are those of the login
C27_Witness ==
  /\ booted
  /\ hist.loggedOut
  /\ ev.op = "login"
  /\ ev.success
  /\ state.user = BackendUser("u2")
  /\ ls[sessionKey] = Json(BackendUser("u2"))

\* the Users sheet has a row of the user
InSheet(values, user) ==
  \E j \in 1..Len(values) : values[j].userId = user.userId

\* C28: a setupPassword whose register request the backend answers from a
\* sheet that has the user's row returns success false, and the step leaves
\* localStorage (the Session without hasPassword, the password_setup marker)
\* and the user and needsPasswordSetup of the state unchanged.
C28_SetupRejectedForExistingUser ==
  [][\A i \in Slots, values \in UserSheets, salt \in Salts :
       /\ RegisterResponse(i, values, salt)
       /\ ops[i].kind = "setupPassword"
       /\ InSheet(values, ops[i].user)
       => /\ ev'.op = "setupPassword"
          /\ ~ev'.success
          /\ ev'.error = "User already exists with this email or phone"
          /\ ls' = ls
          /\ state'.user = state.user
          /\ state'.needsPasswordSetup = state.needsPasswordSetup]_vars

\* the backend has rejected the setupPassword of the legacy user: the prompt
\* is still up, the Session has no hasPassword and there is no marker
C28_Witness ==
  /\ ev.op = "setupPassword"
  /\ ev.phase = "done"
  /\ ev.thrown = ev.error
  /\ ~ev.success
  /\ ev.error = "User already exists with this email or phone"
  /\ state.needsPasswordSetup
  /\ state.user = BackendUser("u1")
  /\ ls[sessionKey] = Json(BackendUser("u1"))
  /\ ls[passwordSetupKey("u1")] = Null

\* a step of a drain: a replay is called, its fetch or its transaction settles
DrainStep ==
  \/ \E dr \in BagToSet(drains) : DrainCall(dr)
  \/ \E dr \in BagToSet(drains), o \in FetchOutcomes : DrainResponse(dr, o)
  \/ \E dr \in BagToSet(drains) : DrainSaved(dr)

\* C29: no step of a drain adds, removes or changes a record of the moods
\* store, whatever the replay outcomes and the connectivity changes while it
\* runs, and every record of the store has synced false; a drain started
\* offline does not run and leaves the syncQueue as it is.
C29_DrainKeepsMoods ==
  [][/\ DrainStep => moods' = moods
     /\ \A r \in moods' : ~r.synced
     /\ \A call \in BagToSet(calls) :
          ApiCallResponse(call, "ok") /\ ~online
          => drains' = drains /\ syncQueue' = syncQueue]_vars

\* the payloads the handlers dispatch with an action type
DispatchPayloads(type) ==
  CASE type = "SET_USER" ->
         {BackendUser(u) : u \in UserIds}
         \cup {[BackendUser(u) EXCEPT !.hasPassword = TRUE] : u \in UserIds}
    [] type = "SET_ERROR" ->
         {NoError, "Invalid login credentials", "Failed to fetch"}
    [] type = "CLEAR_AUTH" -> {Null}
    [] OTHER -> BOOLEAN

\* C30: in every state of the AuthProvider isAuthenticated is true exactly
\* when user is non-null and needsPasswordSetup implies a non-null user;
\* from every such state SET_USER and CLEAR_AUTH give needsPasswordSetup
\* false, and SET_LOADING, SET_ERROR and SET_NEEDS_PASSWORD_SETUP give the
\* same user and isAuthenticated.
C30_ReducerInvariants ==
  /\ state.isAuthenticated <=> state.user # Null
  /\ state.needsPasswordSetup => state.user # Null
  /\ \A type \in {"SET_USER", "CLEAR_AUTH"} :
       \A payload \in DispatchPayloads(type) :
         ~authReducer(state, type, payload).needsPasswordSetup
  /\ \A type \in {"SET_LOADING", "SET_ERROR", "SET_NEEDS_PASSWORD_SETUP"} :
       \A payload \in DispatchPayloads(type) :
         /\ authReducer(state, type, payload).user = state.user
         /\ authReducer(state, type, payload).isAuthenticated
              = state.isAuthenticated

\* a failed login has dispatched SET_ERROR while the prompt of the legacy
\* user was up: the user and the prompt are still there
C30_Witness ==
  /\ ev.op = "login"
  /\ ev.phase = "done"
  /\ ~ev.success
  /\ state.error # NoError
  /\ state.needsPasswordSetup
  /\ state.isAuthenticated
  /\ state.user = BackendUser("u1")

====
